---- MODULE Spec2Model ----
(***************************************************************************)
(* GitHubActionsRunner.runAction and the GithubApiManager operations it    *)
(* sequences: the four polling waiters, the workflow dispatch, the run     *)
(* correlation by custom id, the secrets stage, the log fetch, the         *)
(* conclusion check and the artifact download.                             *)
(*                                                                         *)
(* Time is in milliseconds.  A remote call takes a duration the remote     *)
(* chooses; sleep(POLLING_INTERVAL_MS) takes exactly the poll interval.    *)
(***************************************************************************)
EXTENDS Integers, Sequences, FiniteSets, TLC

\* ------------------------------------------------------------------ bounds
\* Largest timeout handed to runAction (the other one tried is 0).
MaxTimeoutMs == 11000
\* Longest duration of one remote call (the other one tried is 0).
MaxCallMs == 3000
\* Longest run list returned by one listWorkflowRuns call in runAction.
MaxListed == 1
\* In how many stages of one invocation the remote is unconstrained; in the
\* other stages it answers the first call with success.
MaxOpen == 1
\* Correlation spec: longest run list, longest run name, longest custom id.
MaxRuns == 3
MaxNameLen == 2
MaxIdLen == 2
\* Most artifacts one run lists.
MaxArtifacts == 2
\* Longest secrets option and longest list of existing repository secrets.
MaxSecrets == 2
MaxExisting == 2
\* Most options one run-action command line gives.
MaxArgs == 2
MaxRunMinutes == 7

\* ------------------------------------------------------- program constants
POLLING_INTERVAL_MS == 5000
Ok == 200
NoContent == 204
NotFound == 404
UnprocessableEntity == 422
\* A status the code names nowhere stands for every other error status.
OtherErrorStatuses == {500}

WORKFLOW_RUN_SUCCESSFUL_CONCLUSION_STATUS == "success"

\* JavaScript null / undefined of a string-valued field.
Null == "<null>"

\* Keys of the IN_PROGRESS_STATUSES object literal.
IN_PROGRESS_STATUSES == {"in_progress", "queued", "requested", "waiting", "pending"}

\* Property names every JavaScript object literal inherits from
\* Object.prototype; IN_PROGRESS_STATUSES[name] is a truthy function for them.
InheritedKeys ==
    {"constructor", "__defineGetter__", "__defineSetter__", "hasOwnProperty",
     "__lookupGetter__", "__lookupSetter__", "isPrototypeOf",
     "propertyIsEnumerable", "toString", "valueOf", "__proto__", "toLocaleString"}

\* ------------------------------------------------------ remote responses
\* A client call resolves with a response or rejects with an error; an
\* octokit RequestError carries the HTTP status, a transport error does not.
Resolved(s) == [threw |-> FALSE, hasStatus |-> TRUE, status |-> s]
Rejected(s) == [threw |-> TRUE, hasStatus |-> TRUE, status |-> s]
TransportError == [threw |-> TRUE, hasStatus |-> FALSE, status |-> 0]

\* What getCommit / getBranch can answer: octokit resolves below 400 and
\* rejects from 400 on.
LookupOutcomes ==
    {Resolved(Ok), Resolved(NoContent),
     Rejected(NotFound), Rejected(UnprocessableEntity), TransportError}
    \cup {Rejected(s) : s \in OtherErrorStatuses}

\* What createDispatchEvent can answer.
DispatchOutcomes ==
    {Resolved(NoContent), Resolved(Ok), Rejected(NotFound), TransportError}

isErrorWithStatus(error) == error.hasStatus

Timeouts == {0, MaxTimeoutMs}
CallDurations == {0, MaxCallMs}

\* ------------------------------------------------------------- strings
Chars == {"a", "b"}

RECURSIVE SeqsUpTo(_, _)
SeqsUpTo(S, n) ==
    IF n = 0 THEN {<<>>}
    ELSE LET shorter == SeqsUpTo(S, n - 1)
         IN  shorter \cup {Append(s, x) : s \in shorter, x \in S}

\* Variant of includes: the name must equal the id.
includesExact(hay, needle) == hay = needle

\* String.prototype.includes: needle occurs in hay as a contiguous substring.
includes(hay, needle) ==
    \E i \in 0..(Len(hay) - Len(needle)) :
        SubSeq(hay, i + 1, i + Len(needle)) = needle

\* ------------------------------------------------------- run correlation
\* the predicate of workflowRuns.find: run.name?.includes(customWorkflowRunId)
nameMatches(run, customWorkflowRunId) ==
    run.named /\ includes(run.name, customWorkflowRunId)

\* Array.prototype.find: the first element satisfying the predicate, as a
\* sequence of length 1; <<>> (undefined) when none does.
RECURSIVE find(_, _)
find(workflowRuns, customWorkflowRunId) ==
    IF workflowRuns = <<>> THEN <<>>
    ELSE IF nameMatches(Head(workflowRuns), customWorkflowRunId)
         THEN <<Head(workflowRuns)>>
         ELSE find(Tail(workflowRuns), customWorkflowRunId)

\* getWorkflowRun on a resolved list response: null (<<>>) when the response
\* has no workflow_runs, else the first matching run or null.
getWorkflowRun(response, customWorkflowRunId) ==
    IF ~response.hasRuns THEN <<>>
    ELSE find(response.workflow_runs, customWorkflowRunId)

\* ------------------------------------------------------------ run records
\* A WorkflowRun as the list endpoint returns it: name may be null (named =
\* FALSE), status and conclusion may be null (Null).
Run(id, named, name, status, conclusion) ==
    [id |-> id, named |-> named, name |-> name,
     status |-> status, conclusion |-> conclusion]

\* The inherited names a listed run's status is tried with.
InheritedStatuses == {"constructor", "toString"}

StatusValues ==
    IN_PROGRESS_STATUSES \cup InheritedStatuses
        \cup {"completed", "cancelled", "skipped", "future_status", "", Null}

\* Conclusions of a run whose status is "completed".
Conclusions == {"success", "failure", Null}

\* Custom ids nanoid() may generate.
CustomIds == {<<"a", "b">>}

\* The run of the dispatch made with custom id `cid`: its name embeds the id.
Dispatched(cid, status, conclusion) ==
    Run(1, TRUE, <<"a">> \o cid \o <<"b">>, status, conclusion)

\* What the list endpoint can report of the dispatched run: "completed" with
\* any conclusion, "cancelled" and "skipped" with the conclusion of that
\* name, every other status without a conclusion.
DispatchedRuns(cid) ==
    {Dispatched(cid, "completed", c) : c \in Conclusions}
    \cup {Dispatched(cid, s, s) : s \in {"cancelled", "skipped"}}
    \cup {Dispatched(cid, s, Null) :
            s \in StatusValues \ {"completed", "cancelled", "skipped"}}

\* Other runs of the branch: one without a name, one of another dispatch.
OtherRuns ==
    {Run(2, FALSE, <<>>, "completed", "success"),
     Run(3, TRUE, <<"a", "a">>, "completed", "success")}

RECURSIVE ListsUpTo(_, _)
ListsUpTo(S, n) ==
    IF n = 0 THEN {<<>>}
    ELSE LET shorter == ListsUpTo(S, n - 1)
         IN  shorter \cup {<<x>> \o l : x \in S, l \in {m \in shorter : Len(m) = n - 1}}

\* Run lists of one list call: up to MaxListed runs, the dispatched run at
\* most once among them.
RunLists(cid) ==
    {l \in ListsUpTo(DispatchedRuns(cid) \cup OtherRuns, MaxListed) :
        Cardinality({i \in 1..Len(l) : l[i].id = 1}) <= 1}

\* A list response: rejected, resolved without workflow_runs, or resolved
\* with a run list.
ListThrew == [threw |-> TRUE, hasRuns |-> FALSE, workflow_runs |-> <<>>]
ListNoData == [threw |-> FALSE, hasRuns |-> FALSE, workflow_runs |-> <<>>]
ListOf(l) == [threw |-> FALSE, hasRuns |-> TRUE, workflow_runs |-> l]

ListOutcomes(cid) ==
    {ListThrew, ListNoData} \cup {ListOf(l) : l \in RunLists(cid)}

\* An Error with its message; detail is the value interpolated into it.
NoError == [message |-> "", detail |-> ""]
Error(message, detail) == [message |-> message, detail |-> detail]

\* ---------------------------------------------- secrets: pure functions
\* Desired entries, as character sequences: two well-formed entries, an entry
\* whose value contains '=', an entry without '=', one with an empty key, one
\* with an empty value, the empty string.
SecretEntries ==
    {<<"A", "=", "1">>, <<"B", "=", "2">>, <<"B", "=", "3", "=", "4">>,
     <<"C">>, <<"=", "9">>, <<"A", "=">>, <<>>}

\* Names the repository's secrets can have.
SecretNames == {<<"A">>, <<"C">>}

\* The secrets option: up to MaxSecrets entries.
SecretLists == ListsUpTo(SecretEntries, MaxSecrets)

\* response.data.secrets of listSecrets: distinct names in some order.
ExistingLists ==
    {l \in ListsUpTo(SecretNames, MaxExisting) :
        \A i, j \in 1..Len(l) : l[i] = l[j] => i = j}

Names(l) == {l[i] : i \in 1..Len(l)}

\* secret.includes('=')
includesEq(secret) == \E i \in 1..Len(secret) : secret[i] = "="

\* secret.split(separator)
RECURSIVE split(_, _)
split(secret, separator) ==
    IF \A i \in 1..Len(secret) : secret[i] # separator THEN <<secret>>
    ELSE LET i == CHOOSE k \in 1..Len(secret) :
                    /\ secret[k] = separator
                    /\ \A j \in 1..(k - 1) : secret[j] # separator
         IN  <<SubSeq(secret, 1, i - 1)>>
                 \o split(SubSeq(secret, i + 1, Len(secret)), separator)

\* const [key, value] = secret.split('='); a missing part is undefined,
\* which is falsy like the empty string.
keyOf(secret) == split(secret, "=")[1]
valueOf(secret) ==
    LET parts == split(secret, "=") IN IF Len(parts) >= 2 THEN parts[2] ELSE <<>>

\* Variant of isSkipped: only an entry without '=' is skipped.
isSkippedWithoutEqOnly(secret) == ~includesEq(secret)

\* The two guards of the upsert closure: !secret || !secret.includes('='),
\* then !key || !value.
isSkipped(secret) ==
    \/ secret = <<>> \/ ~includesEq(secret)
    \/ keyOf(secret) = <<>> \/ valueOf(secret) = <<>>

\* How the secret endpoints answer one setSecrets call: whether listSecrets
\* and getPublicKey resolve, the existing names, the names whose deleteSecret
\* fails and the positions of the entries whose setSecret fails, a failure
\* being a rejection ("throw") or an unexpected status ("status").  Only
\* requests the call can make are given a way to fail.
SecretsRemotes(secrets) ==
    {r \in [listOk : BOOLEAN, existing : ExistingLists,
            deleteFails : SUBSET SecretNames, deleteHow : {"throw", "status"},
            keyOk : BOOLEAN,
            upsertFails : SUBSET (1..Len(secrets)), upsertHow : {"throw", "status"}] :
        /\ ~r.listOk => r.existing = <<>>
        /\ r.deleteFails \subseteq Names(r.existing)
        /\ r.deleteFails = {} => r.deleteHow = "throw"
        /\ ~r.keyOk => r.upsertFails = {}
        /\ \A i \in r.upsertFails : ~isSkipped(secrets[i])
        /\ r.upsertFails = {} => r.upsertHow = "throw"}

\* Every secret call succeeds and the repository holds no secret.
PromptSecretsRemote ==
    [listOk |-> TRUE, existing |-> <<>>, deleteFails |-> {}, deleteHow |-> "throw",
     keyOk |-> TRUE, upsertFails |-> {}, upsertHow |-> "throw"]

\* existingSecrets.filter(existing => !secrets.includes(existing)):
\* Array.prototype.includes compares each name with the whole entries.
secretsToRemove(existingSecrets, secrets) ==
    LET kept(existingSecret) == \E i \in 1..Len(secrets) : secrets[i] = existingSecret
        absent(existingSecret) == ~kept(existingSecret)
    IN  SelectSeq(existingSecrets, absent)

\* `${array}`: the elements joined with ','.
RECURSIVE join(_)
join(l) ==
    IF Len(l) = 0 THEN <<>>
    ELSE IF Len(l) = 1 THEN l[1]
    ELSE l[1] \o <<",">> \o join(Tail(l))

Log(level, message, arg) == [level |-> level, message |-> message, arg |-> arg]

\* Variant of syncRequested: the repository is synchronised on every call.
syncRequestedAlways(syncSecrets) == TRUE

\* if (syncSecrets)
syncRequested(syncSecrets) == syncSecrets

\* What a setSecrets call has done so far: whether it threw and with which
\* error, whether listSecrets was called, the names deleteSecret was called
\* for and those removed, whether getPublicKey was called, the positions of
\* the entries setSecret was called for, the key and the value sealed for
\* each of them, the positions stored, and the log.
NoResult ==
    [threw |-> FALSE, error |-> NoError, listed |-> FALSE,
     deleted |-> <<>>, removed |-> {},
     keyFetched |-> FALSE, upserted |-> {}, sealed |-> {}, stored |-> {},
     logs |-> {}]

\* The log line of the removal closure for the name n.
removeLog(n, remote) ==
    IF n \notin remote.deleteFails
    THEN Log("info", "Secret removed successfully", n)
    ELSE Log("error",
             IF remote.deleteHow = "throw" THEN "Error removing secret"
             ELSE "Unexpected status when removing secret", n)

\* The upsert closure applied to the entry at position i: what it logs.
upsertLogs(secrets, i, remote) ==
    LET secret == secrets[i]
    IN  IF secret = <<>> \/ ~includesEq(secret)
        THEN {Log("warn", "Invalid secret format", secret)}
        ELSE IF keyOf(secret) = <<>> \/ valueOf(secret) = <<>>
        THEN {Log("warn", "Invalid key-value pair for secret", secret)}
        ELSE IF i \notin remote.upsertFails
        THEN {Log("info", "Secret created/updated successfully", keyOf(secret))}
        ELSE {Log("error",
                  IF remote.upsertHow = "throw" THEN "Error setting secret"
                  ELSE "Unexpected status when setting secret", keyOf(secret))}

\* Variant of nothingToSet: the public key is fetched for every list.
nothingToSetNever(secrets) == FALSE

\* secrets.length === 0
nothingToSet(secrets) == Len(secrets) = 0

\* Variant of keyFetchFailed: the upserts go on without a public key.
keyFetchFailedNever(remote) == FALSE

\* getPublicKey rejected (or its response has no data): the catch rethrows.
keyFetchFailed(remote) == ~remote.keyOk

\* The value of a secret the call did not write.
Opaque == <<"*">>

\* The repository's secrets as the call finds them.
repositoryOf(remote) == {[name |-> n, value |-> Opaque] : n \in Names(remote.existing)}

\* DELETE /repos/{owner}/{repo}/actions/secrets/{secret_name}
dropSecret(repo, name) == {e \in repo : e.name # name}

\* PUT /repos/{owner}/{repo}/actions/secrets/{secret_name}: the secret of that
\* name is created or replaced.
putSecret(repo, name, value) ==
    {e \in repo : e.name # name} \cup {[name |-> name, value |-> value]}

\* The secret endpoints a setSecrets call has used.
SecretEndpoints(result) ==
    (IF result.listed THEN {"listSecrets"} ELSE {})
    \cup (IF result.deleted # <<>> THEN {"deleteSecret"} ELSE {})
    \cup (IF result.keyFetched THEN {"getPublicKey"} ELSE {})
    \cup (IF result.upserted # {} THEN {"setSecret"} ELSE {})

\* ------------------------------------------- command line: pure functions
DEFAULT_WAIT_FOR_COMMIT_TIMEOUT_MS == 300000
DEFAULT_WAIT_FOR_BRANCH_TIMEOUT_MS == 300000
DEFAULT_WORKFLOW_RUN_CREATION_TIMEOUT_MS == 300000
DEFAULT_WORKFLOW_RUN_COMPLETION_TIMEOUT_MS == 300000

\* listWorkflowRuns asks for the runs created within this time before the call.
WORKFLOW_CREATED_WITHIN_MS == 300000

\* The four timeout options, by the name commander gives their value.
TimeoutOptions ==
    {"commitTimeout", "branchTimeout",
     "workflowRunCreationTimeout", "workflowRunCompletionTimeout"}

\* Values tried for a timeout option: whole seconds, a fraction, a signed
\* number, a number after a space, a number after a no-break space, and a
\* value that is not a number.
TimeoutValues ==
    {<<"0">>, <<"7">>, <<"3", "0">>, <<"1", ".", "5">>,
     <<"-", "5">>, <<"+", "7">>, <<" ", "7">>, <<"U+00A0", "7">>, <<"a">>}

\* Values tried for --secret.
SecretValues == {<<"A", "=", "1">>, <<"B", "=", "2">>}

\* One option of the command line with its value; --sync-secrets is a flag
\* and has none.
Args ==
    [option : TimeoutOptions, value : TimeoutValues]
    \cup [option : {"secret"}, value : SecretValues]
    \cup [option : {"syncSecrets"}, value : {<<>>}]

Argvs == ListsUpTo(Args, MaxArgs)

\* process.env.GITHUB_TOKEN: absent, empty, or set.
Tokens == {<<>>, <<"">>, <<"ghp">>}

DigitValue ==
    [c \in {"0", "1", "2", "3", "4", "5", "6", "7", "8", "9"} |->
        CASE c = "0" -> 0 [] c = "1" -> 1 [] c = "2" -> 2 [] c = "3" -> 3
          [] c = "4" -> 4 [] c = "5" -> 5 [] c = "6" -> 6 [] c = "7" -> 7
          [] c = "8" -> 8 [] c = "9" -> 9]

\* Leading characters parseInt skips, StrWhiteSpaceChar: the white space
\* TAB, VT, FF, SP, NBSP, ZWNBSP (the byte order mark) and the other space
\* separators (category Zs), and the line terminators LF, CR, LS, PS.  A
\* character that has no escape in a TLA+ string is written as its code
\* point, "U+00A0"; it is one character of the value.
WhiteSpace ==
    {"\t", "U+000B", "\f", " ", "U+00A0", "U+FEFF",
     "U+1680", "U+2000", "U+2001", "U+2002", "U+2003", "U+2004", "U+2005",
     "U+2006", "U+2007", "U+2008", "U+2009", "U+200A", "U+202F", "U+205F",
     "U+3000",
     "\n", "\r", "U+2028", "U+2029"}

RECURSIVE trimStart(_)
trimStart(value) ==
    IF value # <<>> /\ value[1] \in WhiteSpace THEN trimStart(Tail(value)) ELSE value

\* The result of parseInt when no number can be read, and of any product
\* with it.
NaN == "NaN"

\* What is left of `value` after its leading white space and one sign starts
\* with a decimal digit.
startsWithNumber(value) ==
    LET s == trimStart(value)
        body == IF s # <<>> /\ s[1] \in {"+", "-"} THEN Tail(s) ELSE s
    IN  body # <<>> /\ body[1] \in DOMAIN DigitValue

\* The number the leading decimal digits of `value` denote, added to
\* 10^k * acc for k digits read; what follows the digits is ignored.
RECURSIVE parseIntFrom(_, _)
parseIntFrom(value, acc) ==
    IF value = <<>> \/ value[1] \notin DOMAIN DigitValue THEN acc
    ELSE parseIntFrom(Tail(value), acc * 10 + DigitValue[value[1]])

\* parseInt(value, 10): leading white space is skipped, one sign is read,
\* then the leading decimal digits; NaN when there is no digit there.
parseInt(value) ==
    LET s == trimStart(value)
        negative == s # <<>> /\ s[1] = "-"
        body == IF s # <<>> /\ s[1] \in {"+", "-"} THEN Tail(s) ELSE s
    IN  IF ~startsWithNumber(value) THEN NaN
        ELSE IF negative THEN 0 - parseIntFrom(body, 0)
        ELSE parseIntFrom(body, 0)

\* Variant of argParser: the seconds are handed on as they are.
argParserNoScale(value) == parseInt(value)

\* .argParser((value) => parseInt(value, 10) * 1000); NaN * 1000 is NaN.
argParser(value) ==
    IF ~startsWithNumber(value) THEN NaN ELSE parseInt(value) * 1000

\* Variant of collect: the latest value replaces the earlier ones.
collectLast(value, previous) == <<value>>

\* collect: previous.concat([value])
collect(value, previous) == previous \o <<value>>

\* The option values before any argument is read.
DefaultOptions ==
    [commitTimeout |-> DEFAULT_WAIT_FOR_COMMIT_TIMEOUT_MS,
     branchTimeout |-> DEFAULT_WAIT_FOR_BRANCH_TIMEOUT_MS,
     workflowRunCreationTimeout |-> DEFAULT_WORKFLOW_RUN_CREATION_TIMEOUT_MS,
     workflowRunCompletionTimeout |-> DEFAULT_WORKFLOW_RUN_COMPLETION_TIMEOUT_MS,
     secret |-> <<>>,
     syncSecrets |-> FALSE]

\* commander reads the arguments from left to right.
RECURSIVE parseArgs(_, _)
parseArgs(parsed, args) ==
    IF args = <<>> THEN parsed
    ELSE LET arg == args[1]
             next == IF arg.option = "secret"
                     THEN [parsed EXCEPT !.secret = collect(arg.value, parsed.secret)]
                     ELSE IF arg.option = "syncSecrets"
                     THEN [parsed EXCEPT !.syncSecrets = TRUE]
                     ELSE [parsed EXCEPT ![arg.option] = argParser(arg.value)]
         IN  parseArgs(next, Tail(args))

\* Variant of tokenMissing: any environment is accepted.
tokenMissingNever(t) == FALSE

\* !token
tokenMissing(t) == t = <<>> \/ t = <<"">>

\* Variant of exitCodeAfter: the command always ends with 0.
exitCodeAlwaysZero(err) == 0

\* The exit code once runAction has settled: process.exit(1) in the catch,
\* else the handler returns and the process ends with 0.
exitCodeAfter(err) == IF err = NoError THEN 0 ELSE 1

\* The error a rejected client call propagates.
ApiError(response) ==
    Error("RequestError", IF response.hasStatus THEN ToString(response.status) ELSE "")

\* Errors runAction can reject with, by the stage that throws them: the
\* waiters for the commit and the branch,
BeforeSecretsErrors ==
    {Error("Timeout waiting for commit", ""),
     Error("Timeout waiting for branch", "")}
    \cup {ApiError(r) : r \in {o \in LookupOutcomes : o.threw /\ o # Rejected(NotFound)}}

\* setSecrets before it sends an upsert,
KeyError == Error("Failed to retrieve the public key for encryption.", "")

\* and what follows: a rejected client call of setSecrets, of the dispatch or
\* of a run waiter, the dispatch answered without 204, the waiters for the
\* run, the log fetch, the conclusion check and the artifact download.
AfterSecretsErrors ==
    {ApiError(r) : r \in {o \in LookupOutcomes \cup DispatchOutcomes : o.threw}}
    \cup {Error("Failed to trigger workflow", ToString(r.status)) :
            r \in {o \in DispatchOutcomes : ~o.threw /\ o.status # NoContent}}
    \cup {Error("Timeout reached waiting for workflow run creation", ""),
          Error("Timeout reached waiting for workflow run completion", "")}
    \cup {Error("Failed to fetch logs", await) :
            await \in {"getWorkflowRunLogsUrl", "download", "unzip"}}
    \cup {Error("Workflow run failed with conclusion", c) :
            c \in {"failure", "cancelled", "skipped", "timed_out", "neutral",
                   "action_required", "stale", Null}}
    \cup {Error("Error while listing artifacts", ""),
          Error("No artifacts found for the workflow run", "")}
    \cup {Error("Error downloading or extracting file", step) :
            step \in {"url", "status", "size", "ensureDir", "extract"}}

RunActionErrors == BeforeSecretsErrors \cup {KeyError} \cup AfterSecretsErrors

\* logger.error calls of the removal closures of syncSecrets.
RemovalErrorLogs ==
    {Log("error", m, n) :
        m \in {"Error removing secret", "Unexpected status when removing secret"},
        n \in SecretNames}

\* logger.error calls of the upsert closures of setSecrets for `secrets`.
UpsertErrorLogs(secrets) ==
    {Log("error", m, keyOf(secrets[i])) :
        m \in {"Error setting secret", "Unexpected status when setting secret"},
        i \in {j \in 1..Len(secrets) : ~isSkipped(secrets[j])}}

\* ------------------------------------------------------------- the state
VARIABLES
    opts,                 \* RunActionOptions of this invocation
    open,                 \* stages in which the remote is unconstrained
    pc,                   \* stage runAction is in; "done" once it has settled
    at,                   \* inside a waiter: "probe" (about to call) or "sleep"; inside
                          \* fetchWorkflowRunLogs: the call it awaits
    now,                  \* Date.now()
    startTime,            \* startTime of the waiter in progress
    lastCallMs,           \* duration of the remote call the latest step awaited, 0 if none
    probes,               \* probe calls made by the latest waiter
    sleeps,               \* sleeps completed by the latest waiter
    started,              \* stages started so far, in order
    outcome,              \* "running", "resolved" or "rejected"
    error,                \* the error runAction rejected with
    lastLookup,           \* <<response>> of the latest getCommit / getBranch
    lastDispatch,         \* <<response>> of createDispatchEvent
    customWorkflowRunId,  \* the id returned by triggerWorkflow, <<>> before
    dispatches,           \* createDispatchEvent calls made so far
    found,                \* result of the latest getWorkflowRun (<<>> = null)
    listThrew,            \* the latest listWorkflowRuns call rejected
    workflowRunInfo,      \* result of waitForWorkflowRunCreation
    workflowRun,          \* result of waitForWorkflowRunCompletion
    secretCalls,          \* secret endpoints called by setSecrets
    artifactCalls,        \* artifact endpoints called by downloadArtifacts
    artifactsListed,      \* <<artifactsList>> once listWorkflowArtifacts returned
    logFetches,           \* how each fetchWorkflowRunLogs call ended
    keyFetches,           \* how each getPublicKey call of runAction ended
    secretsStored,        \* positions of the entries whose setSecret call succeeded
    c_pc,                 \* correlation check: "input" or "output"
    c_response,           \* correlation check: the list response
    c_id,                 \* correlation check: the custom id
    c_result,             \* correlation check: what getWorkflowRun returned
    s_pc,                 \* setSecrets call: "idle", "input", the await it is at, "output"
    s_secrets,            \* setSecrets call: the secrets argument
    s_syncSecrets,        \* setSecrets call: the syncSecrets argument
    s_remote,             \* setSecrets call: how the secret endpoints answer
    s_result,             \* setSecrets call: what the call has done so far
    s_repo,               \* setSecrets call: the repository's secrets
    s_pending,            \* setSecrets call: the concurrent requests not yet answered
    s_since,              \* setSecrets call: when those requests were sent
    cli_pc,               \* run-action command: "parse", "action", "runAction", "exited"
    argv,                 \* run-action command: the options given
    token,                \* process.env.GITHUB_TOKEN: <<>> when absent, else <<value>>
    options,              \* what commander hands to the action handler
    runner,               \* a GitHubActionsRunner has been constructed
    runActionCall,        \* <<options passed to runner.runAction>>, <<>> before
    runActionError,       \* <<error runAction rejected with>> (NoError: resolved)
    errorLog,             \* what logger.error was called with, in order
    exitCode,             \* exit code of the process, -1 while it runs
    a_pc,                 \* downloadArtifacts call: "idle", "call", "running"
    a_listOk,             \* whether listWorkflowArtifacts resolves
    a_artifacts,          \* the artifacts of the run: name, zip entries, how the download ends
    a_task,               \* per artifact, the await its downloadArtifactToPath call is at
    a_issued,             \* per artifact, when the request it awaits was sent
    a_settled,            \* the promise of downloadArtifacts: "pending", "resolved", "rejected"
    a_error,              \* the error downloadArtifacts rejected with
    a_written,            \* file paths written so far, each with the artifact written from
    runCreatedAt,         \* remote: when the dispatched run was created
    runTerminalAt         \* remote: when the dispatched run reaches a terminal status

ctl == <<pc, at, started, startTime, outcome, error>>
clock == <<now, lastCallMs>>
polls == <<probes, sleeps>>
lookup == <<lastLookup>>
dispatch == <<lastDispatch, customWorkflowRunId, dispatches>>
runs == <<found, listThrew, workflowRunInfo, workflowRun>>
side == <<secretCalls, artifactCalls, artifactsListed, logFetches, keyFetches,
          secretsStored>>
corr == <<c_pc, c_response, c_id, c_result>>
sec == <<s_pc, s_secrets, s_syncSecrets, s_remote, s_result, s_repo, s_pending, s_since>>
cli == <<cli_pc, argv, token, options, runner, runActionCall, runActionError,
         errorLog, exitCode>>
art == <<a_pc, a_listOk, a_artifacts, a_task, a_issued, a_settled, a_error, a_written>>
win == <<runCreatedAt, runTerminalAt>>
vars == <<opts, open, ctl, clock, polls, lookup, dispatch, runs, side, corr, sec, cli,
          art, win>>

WaitStages ==
    {"waitForCommit", "waitForBranch",
     "waitForWorkflowRunCreation", "waitForWorkflowRunCompletion"}

\* The order of the calls in runAction.
StageOrder ==
    <<"waitForCommit", "waitForBranch", "setSecrets", "triggerWorkflow",
      "waitForWorkflowRunCreation", "waitForWorkflowRunCompletion",
      "fetchWorkflowRunLogs", "conclusionCheck", "downloadArtifacts">>

RunActionOptions ==
    [commitTimeoutMs : Timeouts,
     branchTimeoutMs : Timeouts,
     workflowRunCreationTimeoutMs : Timeouts,
     workflowRunCompletionTimeoutMs : Timeouts,
     secrets : {<<>>, <<<<"A", "=", "1">>>>},
     syncSecrets : BOOLEAN,
     artifactsPath : {"", "out"}]


Stages == {StageOrder[i] : i \in 1..Len(StageOrder)}

\* The timeout option a waiter is called with.
TimeoutOf(given, stage) ==
    CASE stage = "waitForCommit" -> given.commitTimeoutMs
      [] stage = "waitForBranch" -> given.branchTimeoutMs
      [] stage = "waitForWorkflowRunCreation" -> given.workflowRunCreationTimeoutMs
      [] stage = "waitForWorkflowRunCompletion" -> given.workflowRunCompletionTimeoutMs

\* downloadArtifacts on its own and the remote's clock of the run are not
\* under consideration.
ArtIdle ==
    /\ a_pc = "idle" /\ a_listOk = TRUE /\ a_artifacts = <<>> /\ a_task = <<>>
    /\ a_issued = <<>>
    /\ a_settled = "pending" /\ a_error = NoError /\ a_written = {}

WinIdle == runCreatedAt = 0 /\ runTerminalAt = 0

\* No setSecrets call is in progress.
SecIdle ==
    /\ s_pc = "idle" /\ s_secrets = <<>> /\ s_syncSecrets = FALSE
    /\ s_remote = PromptSecretsRemote
    /\ s_result = NoResult
    /\ s_repo = {} /\ s_pending = {} /\ s_since = 0

\* The run-action command is not under consideration.
CliIdle ==
    /\ cli_pc = "idle" /\ argv = <<>> /\ token = <<>>
    /\ options = DefaultOptions
    /\ runner = FALSE /\ runActionCall = <<>> /\ runActionError = <<>>
    /\ errorLog = <<>> /\ exitCode = -1

\* A waiter whose first probe succeeds never reads its timeout: outside the
\* open stages the timeout options are left at the largest value.  Secrets
\* are given in the invocations whose setSecrets stage is open.  The
\* artifact stage, which nothing of the earlier stages reaches but the run
\* they found, is opened with the earlier stages answering promptly.
Init ==
    /\ opts \in RunActionOptions
    /\ open \in {S \in SUBSET Stages : Cardinality(S) <= MaxOpen}
    /\ "downloadArtifacts" \in open => open = {"downloadArtifacts"}
    /\ \A w \in WaitStages \ open : TimeoutOf(opts, w) = MaxTimeoutMs
    /\ "setSecrets" \notin open => opts.secrets = <<>> /\ ~opts.syncSecrets
    /\ pc = "waitForCommit" /\ at = "probe"
    /\ now = 0 /\ startTime = 0 /\ lastCallMs = 0
    /\ probes = 0 /\ sleeps = 0
    /\ started = <<"waitForCommit">>
    /\ outcome = "running" /\ error = NoError
    /\ lastLookup = <<>> /\ lastDispatch = <<>> /\ customWorkflowRunId = <<>>
    /\ dispatches = 0
    /\ found = <<>> /\ listThrew = FALSE
    /\ workflowRunInfo = <<>> /\ workflowRun = <<>>
    /\ secretCalls = {} /\ artifactCalls = {} /\ artifactsListed = <<>>
    /\ logFetches = <<>> /\ keyFetches = <<>> /\ secretsStored = {}
    /\ c_pc = "idle" /\ c_response = ListNoData /\ c_id = <<>> /\ c_result = <<>>
    /\ SecIdle
    /\ CliIdle /\ ArtIdle /\ WinIdle

\* ---------------------------------------------------- control transfers
\* Where a stage is when it is entered: a waiter at its first probe,
\* fetchWorkflowRunLogs at the first of its awaits.
firstAwait(stage) ==
    IF stage = "fetchWorkflowRunLogs" THEN "getWorkflowRunLogsUrl" ELSE "probe"

\* The awaited call returned at time t: runAction calls the next stage; a
\* waiter reads startTime = Date.now() as it is called.
\* Variant of Goto: one clock, started with runAction, serves every waiter.
GotoSharedClock(stage, t) ==
    /\ pc' = stage /\ at' = firstAwait(stage)
    /\ started' = Append(started, stage)
    /\ UNCHANGED <<startTime, outcome, error>>

Goto(stage, t) ==
    /\ pc' = stage /\ at' = firstAwait(stage)
    /\ started' = Append(started, stage)
    /\ startTime' = IF stage \in WaitStages THEN t ELSE startTime
    /\ UNCHANGED <<outcome, error>>

\* Variant of Throw: the error is caught and logged, and runAction goes on
\* with the next stage.
ThrowSwallowed(err) ==
    LET k == CHOOSE i \in 1..Len(StageOrder) : StageOrder[i] = pc
        next == IF k < Len(StageOrder) THEN StageOrder[k + 1] ELSE "done"
    IN  /\ pc' = next /\ at' = firstAwait(next)
        /\ started' = IF next = "done" THEN started ELSE Append(started, next)
        /\ error' = err
        /\ UNCHANGED <<outcome, startTime>>

\* Variant of Throw: the stage that failed is started again.
ThrowRestartsStage(err) ==
    /\ pc' = pc /\ at' = firstAwait(pc)
    /\ started' = Append(started, pc)
    /\ error' = err
    /\ UNCHANGED <<outcome, startTime>>

\* The awaited call threw: runAction rejects, nothing after it runs.
Throw(err) ==
    /\ pc' = "done" /\ at' = "probe"
    /\ outcome' = "rejected" /\ error' = err
    /\ UNCHANGED <<started, startTime>>

\* Variant of Retry: the closure recurses without awaiting the sleep.
RetryNoSleep ==
    /\ at' = "probe"
    /\ UNCHANGED <<pc, started, startTime, outcome, error>>

\* The probe said "not yet" and the timeout has not elapsed: sleep next.
Retry ==
    /\ at' = "sleep"
    /\ UNCHANGED <<pc, started, startTime, outcome, error>>

\* runAction returns.
Return ==
    /\ pc' = "done" /\ at' = "probe"
    /\ outcome' = "resolved"
    /\ UNCHANGED <<started, startTime, error>>

\* The probe counters belong to the latest waiter: they start from zero when
\* a waiter is entered and are cleared by the next stage's own call; `probed`
\* is 1 in a step that calls a probe.
Count(probed) ==
    /\ probes' = IF pc \notin WaitStages \/ (pc' \in WaitStages /\ pc' # pc)
                 THEN 0 ELSE probes + probed
    /\ sleeps' = IF pc \notin WaitStages \/ (pc' \in WaitStages /\ pc' # pc)
                 THEN 0 ELSE sleeps

\* What the remote may answer in `stage`: anything in `all` when the stage is
\* open, else the prompt success in `prompt`; a call of a stage that is not
\* open takes MaxCallMs.
Answers(stage, all, prompt) == IF stage \in open THEN all ELSE prompt

\* Variant of timedOut: the clock is compared with the timeout itself.
timedOutAbsolute(t, timeoutMs) == t > timeoutMs

\* Date.now() - startTime > timeoutMs, read at time t.
timedOut(t, timeoutMs) == t - startTime > timeoutMs

\* Variant of sleep: the promise sleep returns is never resolved.
sleepNeverResolves == FALSE /\ UNCHANGED vars

\* sleep(POLLING_INTERVAL_MS), then the recursive call of the probe closure.
sleep ==
    /\ pc \in WaitStages /\ at = "sleep"
    /\ now' = now + POLLING_INTERVAL_MS
    /\ at' = "probe"
    /\ sleeps' = sleeps + 1
    /\ UNCHANGED <<opts, open, pc, started, startTime, outcome, error,
                   lastCallMs, probes, lookup, dispatch, runs, side, corr, sec, cli, art, win>>

\* ------------------------------------------------------ existence waiters
\* Variant of hasCommit: only 404 means "does not exist".
hasCommitOnly404(response) ==
    IF ~response.threw
    THEN (IF response.status = Ok THEN "true" ELSE "false")
    ELSE IF isErrorWithStatus(response) /\ response.status = NotFound
         THEN "false"
         ELSE "throw"

\* Variant of hasBranch: 422 means "does not exist" too.
hasBranchAlso422(response) ==
    IF ~response.threw
    THEN (IF response.status = Ok THEN "true" ELSE "false")
    ELSE IF isErrorWithStatus(response)
            /\ (response.status = NotFound \/ response.status = UnprocessableEntity)
         THEN "false"
         ELSE "throw"

\* hasCommit: "true" / "false" for the boolean it returns, "throw" when it
\* rethrows the client's error.
hasCommit(response) ==
    IF ~response.threw
    THEN (IF response.status = Ok THEN "true" ELSE "false")
    ELSE IF isErrorWithStatus(response)
            /\ (response.status = NotFound \/ response.status = UnprocessableEntity)
         THEN "false"
         ELSE "throw"

hasBranch(response) ==
    IF ~response.threw
    THEN (IF response.status = Ok THEN "true" ELSE "false")
    ELSE IF isErrorWithStatus(response) /\ response.status = NotFound
         THEN "false"
         ELSE "throw"

\* One call of the tryFetchCommit closure of waitForCommit, up to its return,
\* its throw or its sleep.
tryFetchCommit ==
    /\ pc = "waitForCommit" /\ at = "probe"
    /\ \E response \in Answers(pc, LookupOutcomes, {Resolved(Ok)}),
          d \in Answers(pc, CallDurations, {MaxCallMs}) :
        LET t == now + d
            exists == hasCommit(response)
        IN  /\ now' = t /\ lastCallMs' = d
            /\ lastLookup' = <<response>>
            /\ IF exists = "throw" THEN Throw(ApiError(response))
               ELSE IF exists = "true" THEN Goto("waitForBranch", t)
               ELSE IF timedOut(t, TimeoutOf(opts, pc))
                    THEN Throw(Error("Timeout waiting for commit", ""))
                    ELSE Retry
            /\ Count(1)
    /\ UNCHANGED <<opts, open, dispatch, runs, side, corr, sec, cli, art, win>>

\* One call of the tryFetchBranch closure of waitForBranch.
tryFetchBranch ==
    /\ pc = "waitForBranch" /\ at = "probe"
    /\ \E response \in Answers(pc, LookupOutcomes, {Resolved(Ok)}),
          d \in Answers(pc, CallDurations, {MaxCallMs}) :
        LET t == now + d
            exists == hasBranch(response)
        IN  /\ now' = t /\ lastCallMs' = d
            /\ lastLookup' = <<response>>
            /\ IF exists = "throw" THEN Throw(ApiError(response))
               ELSE IF exists = "true" THEN Goto("setSecrets", t)
               ELSE IF timedOut(t, TimeoutOf(opts, pc))
                    THEN Throw(Error("Timeout waiting for branch", ""))
                    ELSE Retry
            /\ Count(1)
    /\ UNCHANGED <<opts, open, dispatch, runs, side, corr, sec, cli, art, win>>

\* --------------------------------------------------------------- secrets
\* setSecrets runs from await to await.  Its removal closures, and later its
\* upsert closures, send their requests together and are resumed one by one
\* as the answers arrive; a step below is the arrival of one answer and the
\* code that runs on it up to the next await.

\* The call is parked at the await `stage`; `pending` are the concurrent
\* requests sent at time t and not yet answered.
setSecretsAwaits(stage, secrets, syncSecrets, remote, result, repo, pending, t) ==
    /\ s_pc' = stage
    /\ s_secrets' = secrets /\ s_syncSecrets' = syncSecrets /\ s_remote' = remote
    /\ s_result' = result /\ s_repo' = repo
    /\ s_pending' = pending /\ s_since' = t
    /\ UNCHANGED ctl

\* The promise of the call settles at time t.  When runAction awaits it
\* (part_007:436) runAction goes on with the dispatch or rejects, and keeps
\* nothing of the call; a call made on its own keeps its result.
setSecretsSettles(secrets, syncSecrets, remote, result, repo, t) ==
    /\ s_pending' = {} /\ s_since' = 0
    /\ IF pc = "setSecrets"
       THEN /\ IF result.threw THEN Throw(result.error)
               ELSE Goto("triggerWorkflow", t)
            /\ s_pc' = "idle"
            /\ s_secrets' = <<>> /\ s_syncSecrets' = FALSE
            /\ s_remote' = PromptSecretsRemote
            /\ s_result' = NoResult /\ s_repo' = {}
       ELSE /\ UNCHANGED ctl
            /\ s_pc' = "output"
            /\ s_secrets' = secrets /\ s_syncSecrets' = syncSecrets /\ s_remote' = remote
            /\ s_result' = result /\ s_repo' = repo

\* What runAction's state shows of the call: the endpoints used and the
\* positions stored.
setSecretsShows(result) ==
    /\ secretCalls' = SecretEndpoints(result)
    /\ secretsStored' = result.stored

\* setSecrets after `if (syncSecrets) { await this.syncSecrets(secrets) }`:
\* return when there is nothing to set, else request the public key.
afterSyncSecrets(secrets, syncSecrets, remote, result, repo, t) ==
    IF nothingToSet(secrets)
    THEN /\ setSecretsSettles(secrets, syncSecrets, remote, result, repo, t)
         /\ setSecretsShows(result)
    ELSE /\ setSecretsAwaits("getPublicKey", secrets, syncSecrets, remote,
                             [result EXCEPT !.keyFetched = TRUE], repo, {}, t)
         /\ setSecretsShows([result EXCEPT !.keyFetched = TRUE])

\* What every step of the call leaves alone.
setSecretsLeaves ==
    UNCHANGED <<opts, open, lookup, dispatch, runs, artifactCalls, artifactsListed,
                logFetches, corr, cli, art, win>>

\* setSecrets(secrets, syncSecrets) is called against `remote`: it requests
\* the secret list, or the public key, or returns at once; no time passes.
setSecretsCalled(secrets, syncSecrets, remote) ==
    /\ now' = now /\ lastCallMs' = 0
    /\ IF syncRequested(syncSecrets)
       THEN /\ setSecretsAwaits("listSecrets", secrets, syncSecrets, remote,
                                [NoResult EXCEPT !.listed = TRUE],
                                repositoryOf(remote), {}, now)
            /\ setSecretsShows([NoResult EXCEPT !.listed = TRUE])
       ELSE afterSyncSecrets(secrets, syncSecrets, remote, NoResult,
                             repositoryOf(remote), now)
    /\ UNCHANGED keyFetches
    /\ Count(0)
    /\ setSecretsLeaves

\* runAction calls setSecrets(secrets, syncSecrets) and awaits it.
setSecrets ==
    /\ pc = "setSecrets" /\ s_pc = "idle"
    /\ \E remote \in Answers(pc, SecretsRemotes(opts.secrets), {PromptSecretsRemote}) :
        setSecretsCalled(opts.secrets, opts.syncSecrets, remote)

\* How long a request of setSecrets takes.
SecretCallDurations == Answers("setSecrets", CallDurations, {MaxCallMs})

\* listSecrets answers (part_011:916): a rejection leaves syncSecrets and
\* setSecrets; else the removal closures send their deleteSecret requests.
listSecretsAnswered ==
    /\ s_pc = "listSecrets"
    /\ \E d \in SecretCallDurations :
        LET t == now + d
            toRemove == secretsToRemove(s_remote.existing, s_secrets)
            listed == [s_result EXCEPT
                          !.deleted = toRemove,
                          !.logs = @ \cup {Log("debug", "Existing secrets",
                                               join(s_remote.existing))}]
            failed == [s_result EXCEPT !.threw = TRUE,
                                       !.error = Error("RequestError", "")]
        IN  /\ now' = t /\ lastCallMs' = d
            /\ IF ~s_remote.listOk
               THEN /\ setSecretsSettles(s_secrets, s_syncSecrets, s_remote, failed, s_repo, t)
                    /\ setSecretsShows(failed)
               ELSE IF toRemove = <<>>
               THEN afterSyncSecrets(s_secrets, s_syncSecrets, s_remote, listed, s_repo, t)
               ELSE /\ setSecretsAwaits("deleteSecret", s_secrets, s_syncSecrets, s_remote,
                                        listed, s_repo, Names(toRemove), t)
                    /\ setSecretsShows(listed)
    /\ UNCHANGED keyFetches
    /\ Count(0)
    /\ setSecretsLeaves

\* When a request sent at s_since is answered: after one of the durations,
\* and not before the present.
LandingTimes == {t \in {s_since + d : d \in SecretCallDurations} : t >= now}

\* One deleteSecret request is answered and its removal closure ends
\* (part_011:923-934); Promise.all resolves with the last of them
\* (part_011:937).
deleteSecretAnswered ==
    /\ s_pc = "deleteSecret"
    /\ \E n \in s_pending, t \in LandingTimes :
        LET ok == n \notin s_remote.deleteFails
            result == [s_result EXCEPT
                          !.removed = IF ok THEN @ \cup {n} ELSE @,
                          !.logs = @ \cup {removeLog(n, s_remote)}]
            repo == IF ok THEN dropSecret(s_repo, n) ELSE s_repo
        IN  /\ now' = t /\ lastCallMs' = t - s_since
            /\ IF s_pending = {n}
               THEN afterSyncSecrets(s_secrets, s_syncSecrets, s_remote, result, repo, t)
               ELSE /\ setSecretsAwaits("deleteSecret", s_secrets, s_syncSecrets, s_remote,
                                        result, repo, s_pending \ {n}, s_since)
                    /\ setSecretsShows(result)
    /\ UNCHANGED keyFetches
    /\ Count(0)
    /\ setSecretsLeaves

\* getPublicKey answers (part_011:968): a rejection fails setSecrets; else
\* every upsert closure runs up to its setSecret request, the closures of
\* skipped entries returning with a warning.
getPublicKeyAnswered ==
    /\ s_pc = "getPublicKey"
    /\ \E d \in SecretCallDurations :
        LET t == now + d
            wellFormed == {i \in 1..Len(s_secrets) : ~isSkipped(s_secrets[i])}
            skipped == (1..Len(s_secrets)) \ wellFormed
            failed == [s_result EXCEPT
                          !.threw = TRUE,
                          !.error = Error("Failed to retrieve the public key for encryption.", "")]
            sent == [s_result EXCEPT
                        !.upserted = wellFormed,
                        !.sealed = {[at |-> i, key |-> keyOf(s_secrets[i]),
                                     value |-> valueOf(s_secrets[i])] : i \in wellFormed},
                        !.logs = @ \cup UNION {upsertLogs(s_secrets, i, s_remote) :
                                                  i \in skipped}]
        IN  /\ now' = t /\ lastCallMs' = d
            /\ keyFetches' = Append(keyFetches,
                                     IF s_remote.keyOk THEN "fetched" ELSE "failed")
            /\ IF keyFetchFailed(s_remote)
               THEN /\ setSecretsSettles(s_secrets, s_syncSecrets, s_remote, failed, s_repo, t)
                    /\ setSecretsShows(failed)
               ELSE /\ setSecretsShows(sent)
                    /\ IF wellFormed = {}
                       THEN setSecretsSettles(s_secrets, s_syncSecrets, s_remote, sent, s_repo, t)
                       ELSE setSecretsAwaits("setSecret", s_secrets, s_syncSecrets, s_remote,
                                             sent, s_repo, wellFormed, t)
    /\ Count(0)
    /\ setSecretsLeaves

\* One setSecret request is answered and its upsert closure ends
\* (part_011:990-1003); Promise.all resolves with the last of them
\* (part_011:1007) and setSecrets returns.
setSecretAnswered ==
    /\ s_pc = "setSecret"
    /\ \E i \in s_pending, t \in LandingTimes :
        LET ok == i \notin s_remote.upsertFails
            result == [s_result EXCEPT
                          !.stored = IF ok THEN @ \cup {i} ELSE @,
                          !.logs = @ \cup upsertLogs(s_secrets, i, s_remote)]
            repo == IF ok THEN putSecret(s_repo, keyOf(s_secrets[i]), valueOf(s_secrets[i]))
                    ELSE s_repo
        IN  /\ now' = t /\ lastCallMs' = t - s_since
            /\ setSecretsShows(result)
            /\ IF s_pending = {i}
               THEN setSecretsSettles(s_secrets, s_syncSecrets, s_remote, result, repo, t)
               ELSE setSecretsAwaits("setSecret", s_secrets, s_syncSecrets, s_remote,
                                     result, repo, s_pending \ {i}, s_since)
    /\ UNCHANGED keyFetches
    /\ Count(0)
    /\ setSecretsLeaves

\* -------------------------------------------------------------- dispatch
\* Variant of dispatchAccepted: any success status is accepted.
dispatchAcceptedAny2xx(response) == response.status \in {Ok, NoContent}

\* response.status !== HttpStatusCode.NoContent is the failure test.
dispatchAccepted(response) == response.status = NoContent

\* triggerWorkflow and the assignment of its result in runAction.
triggerWorkflow ==
    /\ pc = "triggerWorkflow"
    /\ \E workflowRunCustomId \in CustomIds,
          response \in Answers(pc, DispatchOutcomes, {Resolved(NoContent)}),
          d \in Answers(pc, CallDurations, {MaxCallMs}) :
        LET t == now + d
        IN  /\ now' = t /\ lastCallMs' = d
            /\ lastDispatch' = <<response>>
            /\ dispatches' = dispatches + 1
            /\ IF response.threw
               THEN /\ Throw(ApiError(response))
                    /\ UNCHANGED customWorkflowRunId
               ELSE IF ~dispatchAccepted(response)
                    THEN /\ Throw(Error("Failed to trigger workflow", ToString(response.status)))
                         /\ UNCHANGED customWorkflowRunId
                    ELSE /\ customWorkflowRunId' = workflowRunCustomId
                         /\ Goto("waitForWorkflowRunCreation", t)
            /\ Count(0)
    /\ UNCHANGED <<opts, open, lookup, runs, side, corr, sec, cli, art, win>>

\* ------------------------------------------------------ run-list waiters
\* Variant of createdVerdict: a run counts as created only while it runs.
createdVerdictRunningOnly(run, t, timeoutMs) ==
    IF run # <<>> /\ run[1].status \in IN_PROGRESS_STATUSES THEN "return"
    ELSE IF t - startTime > timeoutMs THEN "throw"
    ELSE "sleep"

\* Variant of createdVerdict: on timeout the closure returns null, as the
\* waiter's documentation has it ("otherwise null").
createdVerdictNullOnTimeout(run, t, timeoutMs) ==
    IF run # <<>> THEN "return"
    ELSE IF t - startTime > timeoutMs THEN "return"
    ELSE "sleep"

\* What one call of checkIfWorkflowRunCreated does with the run it got at
\* time t: "return" it, "throw" the timeout error, or "sleep" and recurse.
createdVerdict(run, t, timeoutMs) ==
    IF run # <<>> THEN "return"
    ELSE IF timedOut(t, timeoutMs) THEN "throw"
    ELSE "sleep"

\* One call of checkIfWorkflowRunCreated, and the null check runAction makes
\* on the waiter's result.
checkIfWorkflowRunCreated ==
    /\ pc = "waitForWorkflowRunCreation" /\ at = "probe"
    /\ \E response \in Answers(pc, ListOutcomes(customWorkflowRunId),
                                {ListOf(<<Dispatched(customWorkflowRunId, "queued", Null)>>)}),
          d \in Answers(pc, CallDurations, {MaxCallMs}) :
        LET t == now + d
            run == getWorkflowRun(response, customWorkflowRunId)
            verdict == createdVerdict(run, t, TimeoutOf(opts, pc))
        IN  /\ now' = t /\ lastCallMs' = d
            /\ listThrew' = response.threw
            /\ IF response.threw
               THEN /\ Throw(Error("RequestError", ""))
                    /\ UNCHANGED <<found, workflowRunInfo>>
               ELSE /\ found' = run
                    /\ workflowRunInfo' = IF verdict = "return" THEN run ELSE workflowRunInfo
                    /\ IF verdict = "return"
                       THEN (IF run = <<>> THEN Throw(Error("Workflow run not found.", ""))
                             ELSE Goto("waitForWorkflowRunCompletion", t))
                       ELSE IF verdict = "throw"
                            THEN Throw(Error("Timeout reached waiting for workflow run creation", ""))
                            ELSE Retry
            /\ Count(1)
    /\ UNCHANGED <<opts, open, lookup, dispatch, workflowRun, side, corr, sec, cli, art, win>>

\* Variant of isFinal: an enumerated terminal set.
isFinalCompletedOnly(status) == status = "completed"

\* Variant of isFinal: the status is looked up without the truthiness test.
isFinalWithoutTruthiness(status) ==
    status \notin IN_PROGRESS_STATUSES \cup InheritedKeys

\* if (workflowRun.status) { if (!IN_PROGRESS_STATUSES[workflowRun.status]) ...
\* : the status is truthy and the object literal has no truthy property of
\* that name.
isFinal(status) ==
    /\ status \notin {Null, ""}
    /\ status \notin IN_PROGRESS_STATUSES \cup InheritedKeys

\* Variant of completedVerdict: null is returned when the run is not listed.
completedVerdictNullWhenAbsent(run, t, timeoutMs) ==
    IF run = <<>> THEN "return"
    ELSE IF run[1].status \notin {Null, ""}
            /\ run[1].status \notin IN_PROGRESS_STATUSES \cup InheritedKeys
         THEN "return"
         ELSE IF t - startTime > timeoutMs THEN "throw"
         ELSE "sleep"

\* Variant of completedVerdict: the timeout is tested before the run is
\* looked at.
completedVerdictTimeoutFirst(run, t, timeoutMs) ==
    IF t - startTime > timeoutMs THEN "throw"
    ELSE IF run # <<>> /\ run[1].status \notin {Null, ""}
            /\ run[1].status \notin IN_PROGRESS_STATUSES \cup InheritedKeys
         THEN "return"
    ELSE "sleep"

\* What one call of checkIfWorkflowRunCompleted does with the run it got at
\* time t.
completedVerdict(run, t, timeoutMs) ==
    IF run # <<>> /\ isFinal(run[1].status) THEN "return"
    ELSE IF timedOut(t, timeoutMs) THEN "throw"
    ELSE "sleep"

\* One call of checkIfWorkflowRunCompleted, and the null check runAction makes
\* on the waiter's result.
checkIfWorkflowRunCompleted ==
    /\ pc = "waitForWorkflowRunCompletion" /\ at = "probe"
    /\ \E response \in Answers(pc, ListOutcomes(customWorkflowRunId),
                                {ListOf(<<Dispatched(customWorkflowRunId, "completed", c)>>) :
                                    c \in Conclusions}),
          d \in Answers(pc, CallDurations, {MaxCallMs}) :
        LET t == now + d
            run == getWorkflowRun(response, customWorkflowRunId)
            verdict == completedVerdict(run, t, TimeoutOf(opts, pc))
        IN  /\ now' = t /\ lastCallMs' = d
            /\ listThrew' = response.threw
            /\ IF response.threw
               THEN /\ Throw(Error("RequestError", ""))
                    /\ UNCHANGED <<found, workflowRun>>
               ELSE /\ found' = run
                    /\ workflowRun' = IF verdict = "return" THEN run ELSE workflowRun
                    /\ IF verdict = "return"
                       THEN (IF run = <<>> THEN Throw(Error("Workflow run not found.", ""))
                             ELSE Goto("fetchWorkflowRunLogs", t))
                       ELSE IF verdict = "throw"
                            THEN Throw(Error("Timeout reached waiting for workflow run completion", ""))
                            ELSE Retry
            /\ Count(1)
    /\ UNCHANGED <<opts, open, lookup, dispatch, workflowRunInfo, side, corr, sec, cli, art, win>>

\* ------------------------------------------------- logs, conclusion, artifacts
\* The awaits of fetchWorkflowRunLogs in order: getWorkflowRunLogsUrl, the
\* axios download of the archive, the unzip pipeline; then it returns the
\* log text ("done").
nextLogAwait(await) ==
    CASE await = "getWorkflowRunLogsUrl" -> "download"
      [] await = "download" -> "unzip"
      [] await = "unzip" -> "done"

\* Variant of afterLogs: a failed log fetch is swallowed and the run goes on.
afterLogsSwallowed(ok, await, t) == Goto("conclusionCheck", t)

\* await fetchWorkflowRunLogs(...) in runAction: the rejection is not caught,
\* so the statements after it run only when the logs were fetched.  What
\* failed at `await` is rethrown as "Failed to fetch logs".
afterLogs(ok, await, t) ==
    IF ok THEN Goto("conclusionCheck", t)
    ELSE Throw(Error("Failed to fetch logs", await))

\* fetchWorkflowRunLogs(workflowRun.id), one await at a time: the call it
\* awaits answers after d and the function runs to its next await, its
\* return or its throw.  A failure of the URL request (or an answer without
\* a URL), of the download or of the unzip pipeline is rethrown as "Failed
\* to fetch logs".
fetchWorkflowRunLogs ==
    /\ pc = "fetchWorkflowRunLogs"
    /\ \E ok \in Answers(pc, BOOLEAN, {TRUE}), d \in Answers(pc, CallDurations, {MaxCallMs}) :
        LET t == now + d
        IN  /\ now' = t /\ lastCallMs' = d
            /\ IF ok /\ nextLogAwait(at) # "done"
               THEN /\ at' = nextLogAwait(at)
                    /\ UNCHANGED <<pc, started, startTime, outcome, error>>
                    /\ UNCHANGED <<logFetches, polls>>
               ELSE /\ logFetches' = Append(logFetches, IF ok THEN "fetched" ELSE "failed")
                    /\ afterLogs(ok, at, t)
                    /\ Count(0)
    /\ UNCHANGED <<opts, open, lookup, dispatch, runs, secretCalls, artifactCalls,
                   artifactsListed, keyFetches, secretsStored, corr, sec, cli, art, win>>

\* Variant of conclusionPassed: only an explicit failure is rejected.
conclusionPassedUnlessFailure(conclusion) == conclusion # "failure"

\* Variant of conclusionPassed: the conclusion is not looked at.
conclusionPassedAlways(conclusion) == TRUE

\* workflowRun.conclusion === WORKFLOW_RUN_SUCCESSFUL_CONCLUSION_STATUS
conclusionPassed(conclusion) == conclusion = WORKFLOW_RUN_SUCCESSFUL_CONCLUSION_STATUS

\* Variant of artifactsRequested: artifacts are downloaded after every run.
artifactsRequestedAlways(artifactsPath) == TRUE

\* if (artifactsPath)
artifactsRequested(artifactsPath) == artifactsPath # ""

\* The conclusion check of runAction and the artifactsPath test after it.
conclusionCheck ==
    /\ pc = "conclusionCheck"
    /\ IF ~conclusionPassed(workflowRun[1].conclusion)
       THEN Throw(Error("Workflow run failed with conclusion", workflowRun[1].conclusion))
       ELSE IF artifactsRequested(opts.artifactsPath) THEN Goto("downloadArtifacts", now)
       ELSE Return
    /\ Count(0)
    /\ UNCHANGED <<opts, open, clock, lookup, dispatch, runs, side, corr, sec, cli, art, win>>

\* ------------------------------------------------------------- artifacts
\* How the download of one artifact ends as far as the remote and the
\* archive decide it: "ok", or the step that fails: the download URL request,
\* the download answering a status other than 200, the download exceeding
\* ARTIFACTS_MAX_DOWNLOAD_SIZE_BYTES, the extraction.  Whether ensureDir can
\* make the destination directory is decided when it is called.
ArtifactOutcomes == {"ok", "url", "status", "size", "extract"}

\* The artifact endpoint `call` was used for artifact `artifact` (0: the list
\* call of the run) and succeeded or failed.
ArtifactCall(call, artifact, ok) == [call |-> call, artifact |-> artifact, ok |-> ok]

ArtifactNames == {"x", "y"}

\* The file entries of an artifact's zip archive.
ZipEntries == {{"f"}, {"g"}}

\* An artifact of the run: its name, the entries of its archive, and how its
\* download goes.
Artifacts == [name : ArtifactNames, entries : ZipEntries, ending : ArtifactOutcomes]

\* The artifact lists runAction is checked with: the artifacts differ in how
\* their download ends.
RunArtifactLists ==
    ListsUpTo({a \in Artifacts : a.name = "x" /\ a.entries = {"f"}}, MaxArtifacts)

\* The list of a run with one artifact whose download succeeds.
PromptArtifactList == <<[name |-> "x", entries |-> {"f"}, ending |-> "ok"]>>

\* The --artifacts-path, resolved against the working directory.
ArtifactsDir == "out"

\* unzipper.Extract({ path: dirPath }): every entry of every archive is
\* written under dirPath itself.
extractPath(dirPath, artifact, entry) == <<dirPath, entry>>

\* The awaits of downloadArtifactToPath in order: getArtifactDownloadUrl, the
\* axios download, ensureDir(dirPath), the extraction pipeline; then the call
\* has returned ("done") or thrown ("failed").  dirOk: ensureDir resolves.
nextTaskStage(stage, ending, dirOk) ==
    CASE stage = "url" -> IF ending = "url" THEN "failed" ELSE "download"
      [] stage = "download" ->
            IF ending \in {"status", "size"} THEN "failed" ELSE "ensureDir"
      [] stage = "ensureDir" -> IF dirOk THEN "extract" ELSE "failed"
      [] stage = "extract" -> IF ending = "extract" THEN "failed" ELSE "done"

\* The call a downloadArtifactToPath task awaits at `stage`.
awaitedCall(stage) ==
    CASE stage = "url" -> "getArtifactDownloadUrl"
      [] stage = "download" -> "download"
      [] stage = "ensureDir" -> "ensureDir"
      [] stage = "extract" -> "extract"

\* What the catch of downloadArtifactToPath wraps when the await at `stage`
\* throws.
thrownAt(stage, ending) == IF stage = "ensureDir" THEN "ensureDir" ELSE ending

\* Variant of promiseAll: Promise.allSettled, which waits for every promise
\* and never rejects.
promiseAllSettled(tasks, settled) ==
    IF settled # "pending" THEN settled
    ELSE IF \A i \in 1..Len(tasks) : tasks[i] \in {"done", "failed"} THEN "resolved"
    ELSE "pending"

\* Promise.all over the task promises: it rejects as soon as one of them
\* rejects, resolves once all have resolved, and never changes afterwards.
promiseAll(tasks, settled) ==
    IF settled # "pending" THEN settled
    ELSE IF \E i \in 1..Len(tasks) : tasks[i] = "failed" THEN "rejected"
    ELSE IF \A i \in 1..Len(tasks) : tasks[i] = "done" THEN "resolved"
    ELSE "pending"

\* Variant of noArtifactsFound: an empty list is accepted.
noArtifactsFoundNever(artifactsList) == FALSE

\* artifactsList.length === 0
noArtifactsFound(artifactsList) == Len(artifactsList) = 0

\* What every step of downloadArtifacts leaves alone.
downloadArtifactsLeaves ==
    UNCHANGED <<opts, open, lookup, dispatch, runs, secretCalls, logFetches,
                keyFetches, secretsStored, corr, sec, cli, win>>

\* How long a request of downloadArtifacts takes.
ArtifactCallDurations == Answers("downloadArtifacts", CallDurations, {MaxCallMs})

\* downloadArtifacts is called and listWorkflowArtifacts answers after d
\* (part_011:813): it throws when the list call failed or the list is empty,
\* else every downloadArtifactToPath call starts and requests its download
\* URL, and downloadArtifacts awaits Promise.all of them.  runAction, when
\* it awaits the call (part_007:469), rejects with what it throws.
listWorkflowArtifactsAnswered(listOk, artifacts, d) ==
    LET t == now + d
    IN  /\ now' = t /\ lastCallMs' = d
        /\ a_pc' = "running"
        /\ a_listOk' = listOk /\ a_artifacts' = artifacts
        /\ artifactCalls' =
                artifactCalls \cup {ArtifactCall("listWorkflowArtifacts", 0, listOk)}
        /\ artifactsListed' =
                IF listOk THEN <<[i \in 1..Len(artifacts) |-> artifacts[i].ending]>>
                ELSE <<>>
        /\ IF ~listOk
           THEN /\ a_settled' = "rejected"
                /\ a_error' = Error("Error while listing artifacts", "")
                /\ a_task' = <<>> /\ a_issued' = <<>>
           ELSE IF noArtifactsFound(artifacts)
           THEN /\ a_settled' = "rejected"
                /\ a_error' = Error("No artifacts found for the workflow run", "")
                /\ a_task' = <<>> /\ a_issued' = <<>>
           ELSE /\ a_task' = [i \in 1..Len(artifacts) |-> "url"]
                /\ a_issued' = [i \in 1..Len(artifacts) |-> t]
                /\ UNCHANGED <<a_settled, a_error>>
        /\ IF pc = "downloadArtifacts" /\ a_settled' = "rejected"
           THEN Throw(a_error')
           ELSE UNCHANGED ctl
        /\ UNCHANGED a_written
        /\ Count(0)
        /\ downloadArtifactsLeaves

\* runAction calls downloadArtifacts(workflowRun, artifactsPath).
downloadArtifacts ==
    /\ pc = "downloadArtifacts" /\ a_pc = "idle"
    /\ \E listOk \in Answers(pc, BOOLEAN, {TRUE}),
          artifacts \in Answers(pc, RunArtifactLists, {PromptArtifactList}),
          d \in ArtifactCallDurations :
        /\ ~listOk => artifacts = <<>>
        /\ listWorkflowArtifactsAnswered(listOk, artifacts, d)

\* The tasks that await an answer.
PendingTasks == {i \in 1..Len(a_task) : a_task[i] \notin {"done", "failed"}}

\* One downloadArtifactToPath call gets the answer it awaits, d after it
\* asked and before any other request is overdue, and runs to its next
\* await, its return or its throw.  A call that throws rejects its promise,
\* and Promise.all, with it downloadArtifacts and the awaiting runAction,
\* settles in the same turn when that decides it; the other calls go on.
\* An extraction that fails may have written some of the entries.
downloadArtifactToPath ==
    /\ a_pc = "running"
    /\ \E i \in PendingTasks, d \in ArtifactCallDurations,
          dirOk \in Answers("downloadArtifacts", BOOLEAN, {TRUE}) :
        LET t == a_issued[i] + d
            artifact == a_artifacts[i]
            next == nextTaskStage(a_task[i], artifact.ending, dirOk)
        IN  /\ a_task[i] # "ensureDir" => dirOk
            /\ t >= now
            /\ \A j \in PendingTasks : t <= a_issued[j] + MaxCallMs
            /\ now' = t /\ lastCallMs' = d
            /\ a_task' = [a_task EXCEPT ![i] = next]
            /\ a_issued' = [a_issued EXCEPT ![i] = IF next \in {"done", "failed"} THEN 0 ELSE t]
            /\ artifactCalls' =
                    artifactCalls \cup {ArtifactCall(awaitedCall(a_task[i]), i, next # "failed")}
            /\ \E entries \in (IF a_task[i] # "extract" THEN {{}}
                               ELSE IF next = "done" THEN {artifact.entries}
                               ELSE SUBSET artifact.entries) :
                 a_written' = a_written \cup
                     {[path |-> extractPath(ArtifactsDir, artifact, e),
                       artifact |-> i] : e \in entries}
            /\ a_settled' = promiseAll(a_task', a_settled)
            /\ a_error' = IF a_settled = "pending" /\ a_settled' = "rejected"
                          THEN Error("Error downloading or extracting file",
                                     thrownAt(a_task[i], artifact.ending))
                          ELSE a_error
            /\ IF pc = "downloadArtifacts" /\ a_settled' = "rejected"
               THEN Throw(a_error')
               ELSE IF pc = "downloadArtifacts" /\ a_settled' = "resolved"
               THEN Return
               ELSE UNCHANGED ctl
    /\ UNCHANGED <<a_pc, a_listOk, a_artifacts, artifactsListed>>
    /\ Count(0)
    /\ downloadArtifactsLeaves

Next ==
    \/ tryFetchCommit
    \/ tryFetchBranch
    \/ sleep
    \/ setSecrets
    \/ listSecretsAnswered
    \/ deleteSecretAnswered
    \/ getPublicKeyAnswered
    \/ setSecretAnswered
    \/ triggerWorkflow
    \/ checkIfWorkflowRunCreated
    \/ checkIfWorkflowRunCompleted
    \/ fetchWorkflowRunLogs
    \/ conclusionCheck
    \/ downloadArtifacts
    \/ downloadArtifactToPath

Spec == Init /\ [][Next]_vars

\* runAction on an event loop that runs every continuation whose awaited
\* promise has settled: remote calls return or fail and timers fire, so a
\* step that is possible is eventually taken.
SpecLive == Init /\ [][Next]_vars /\ WF_vars(Next)

\* ------------------------------------------- getWorkflowRun on its own
\* Names a listed run can have: null, or any string over Chars up to
\* MaxNameLen.
RunNames ==
    {[named |-> FALSE, name |-> <<>>]}
    \cup {[named |-> TRUE, name |-> n] : n \in SeqsUpTo(Chars, MaxNameLen)}

\* The i-th listed run has id i, so equal names are still told apart.
RunList(names) ==
    [i \in 1..Len(names) |->
        Run(i, names[i].named, names[i].name, "completed", "success")]

CorrelateResponses ==
    {ListNoData} \cup {ListOf(RunList(l)) : l \in ListsUpTo(RunNames, MaxRuns)}

CorrelateIds == SeqsUpTo(Chars, MaxIdLen) \ {<<>>}

InitCorrelate ==
    /\ opts = [commitTimeoutMs |-> 0, branchTimeoutMs |-> 0,
               workflowRunCreationTimeoutMs |-> 0,
               workflowRunCompletionTimeoutMs |-> 0,
               secrets |-> <<>>, syncSecrets |-> FALSE, artifactsPath |-> ""]
    /\ open = {}
    /\ pc = "done" /\ at = "probe"
    /\ now = 0 /\ startTime = 0 /\ lastCallMs = 0
    /\ probes = 0 /\ sleeps = 0
    /\ started = <<>>
    /\ outcome = "running" /\ error = NoError
    /\ lastLookup = <<>> /\ lastDispatch = <<>> /\ customWorkflowRunId = <<>>
    /\ dispatches = 0
    /\ found = <<>> /\ listThrew = FALSE
    /\ workflowRunInfo = <<>> /\ workflowRun = <<>>
    /\ secretCalls = {} /\ artifactCalls = {} /\ artifactsListed = <<>>
    /\ logFetches = <<>> /\ keyFetches = <<>> /\ secretsStored = {}
    /\ c_pc = "input" /\ c_result = <<>>
    /\ SecIdle
    /\ CliIdle /\ ArtIdle /\ WinIdle
    /\ c_response \in CorrelateResponses
    /\ c_id \in CorrelateIds

\* getWorkflowRun(branch, customWorkflowRunId) on a resolved list response.
Correlate ==
    /\ c_pc = "input"
    /\ c_result' = getWorkflowRun(c_response, c_id)
    /\ c_pc' = "output"
    /\ UNCHANGED <<opts, open, ctl, clock, polls, lookup, dispatch, runs, side,
                   c_response, c_id, sec, cli, art, win>>

NextCorrelate == Correlate

SpecCorrelate == InitCorrelate /\ [][NextCorrelate]_vars

\* ----------------------------------------------- setSecrets on its own
InitSecrets ==
    /\ opts = [commitTimeoutMs |-> 0, branchTimeoutMs |-> 0,
               workflowRunCreationTimeoutMs |-> 0,
               workflowRunCompletionTimeoutMs |-> 0,
               secrets |-> <<>>, syncSecrets |-> FALSE, artifactsPath |-> ""]
    /\ open = {"setSecrets"}
    /\ pc = "done" /\ at = "probe"
    /\ now = 0 /\ startTime = 0 /\ lastCallMs = 0
    /\ probes = 0 /\ sleeps = 0
    /\ started = <<>>
    /\ outcome = "running" /\ error = NoError
    /\ lastLookup = <<>> /\ lastDispatch = <<>> /\ customWorkflowRunId = <<>>
    /\ dispatches = 0
    /\ found = <<>> /\ listThrew = FALSE
    /\ workflowRunInfo = <<>> /\ workflowRun = <<>>
    /\ secretCalls = {} /\ artifactCalls = {} /\ artifactsListed = <<>>
    /\ logFetches = <<>> /\ keyFetches = <<>> /\ secretsStored = {}
    /\ c_pc = "idle" /\ c_response = ListNoData /\ c_id = <<>> /\ c_result = <<>>
    /\ s_pc = "input"
    /\ s_secrets \in SecretLists
    /\ s_syncSecrets \in BOOLEAN
    /\ s_remote \in SecretsRemotes(s_secrets)
    /\ ~s_syncSecrets => s_remote.listOk /\ s_remote.deleteFails = {}
    /\ s_secrets = <<>> => s_remote.keyOk
    /\ s_result = NoResult
    /\ s_repo = {} /\ s_pending = {} /\ s_since = 0
    /\ CliIdle /\ ArtIdle /\ WinIdle

\* setSecrets(secrets, syncSecrets) called on its own against s_remote.
SetSecretsCall ==
    /\ s_pc = "input"
    /\ setSecretsCalled(s_secrets, s_syncSecrets, s_remote)

NextSecrets ==
    \/ SetSecretsCall
    \/ listSecretsAnswered
    \/ deleteSecretAnswered
    \/ getPublicKeyAnswered
    \/ setSecretAnswered

SpecSecrets == InitSecrets /\ [][NextSecrets]_vars

\* ------------------------------------------------ the run-action command
InitCli ==
    /\ opts = [commitTimeoutMs |-> 0, branchTimeoutMs |-> 0,
               workflowRunCreationTimeoutMs |-> 0,
               workflowRunCompletionTimeoutMs |-> 0,
               secrets |-> <<>>, syncSecrets |-> FALSE, artifactsPath |-> ""]
    /\ open = {}
    /\ pc = "done" /\ at = "probe"
    /\ now = 0 /\ startTime = 0 /\ lastCallMs = 0
    /\ probes = 0 /\ sleeps = 0
    /\ started = <<>>
    /\ outcome = "running" /\ error = NoError
    /\ lastLookup = <<>> /\ lastDispatch = <<>> /\ customWorkflowRunId = <<>>
    /\ dispatches = 0
    /\ found = <<>> /\ listThrew = FALSE
    /\ workflowRunInfo = <<>> /\ workflowRun = <<>>
    /\ secretCalls = {} /\ artifactCalls = {} /\ artifactsListed = <<>>
    /\ logFetches = <<>> /\ keyFetches = <<>> /\ secretsStored = {}
    /\ c_pc = "idle" /\ c_response = ListNoData /\ c_id = <<>> /\ c_result = <<>>
    /\ SecIdle
    /\ cli_pc = "parse"
    /\ argv \in Argvs
    /\ token \in Tokens
    /\ options = DefaultOptions
    /\ runner = FALSE /\ runActionCall = <<>> /\ runActionError = <<>>
    /\ errorLog = <<>> /\ exitCode = -1
    /\ ArtIdle /\ WinIdle

NotCli == <<opts, open, ctl, clock, polls, lookup, dispatch, runs, side, corr, sec,
           art, win>>

\* program.parse(process.argv): commander applies the option parsers and
\* calls the action handler with the option values.
parse ==
    /\ cli_pc = "parse"
    /\ options' = parseArgs(DefaultOptions, argv)
    /\ cli_pc' = "action"
    /\ UNCHANGED <<NotCli, argv, token, runner, runActionCall, runActionError,
                   errorLog, exitCode>>

\* The action handler up to the call of runner.runAction.
action ==
    /\ cli_pc = "action"
    /\ IF tokenMissing(token)
       THEN /\ errorLog' = Append(errorLog,
                    Log("error", "The <GITHUB_TOKEN> environment variable is required.",
                        <<>>))
            /\ exitCode' = 1
            /\ cli_pc' = "exited"
            /\ UNCHANGED <<runner, runActionCall>>
       ELSE /\ runner' = TRUE
            /\ runActionCall' =
                <<[commitTimeoutMs |-> options.commitTimeout,
                   branchTimeoutMs |-> options.branchTimeout,
                   workflowRunCreationTimeoutMs |-> options.workflowRunCreationTimeout,
                   workflowRunCompletionTimeoutMs |-> options.workflowRunCompletionTimeout,
                   secrets |-> options.secret,
                   syncSecrets |-> options.syncSecrets]>>
            /\ cli_pc' = "runAction"
            /\ UNCHANGED <<errorLog, exitCode>>
    /\ UNCHANGED <<NotCli, argv, token, options, runActionError>>

\* While runAction runs, a removal closure of syncSecrets logs that its
\* deleteSecret call failed (part_011:929, 932): once per existing secret at
\* most, only when syncSecrets is set, and before any upsert is sent.
removalErrorLogged ==
    /\ cli_pc = "runAction"
    /\ runActionCall[1].syncSecrets
    /\ \A i \in 1..Len(errorLog) : errorLog[i] \in RemovalErrorLogs
    /\ \E entry \in RemovalErrorLogs :
        /\ \A i \in 1..Len(errorLog) : errorLog[i].arg # entry.arg
        /\ errorLog' = Append(errorLog, entry)
    /\ UNCHANGED <<NotCli, argv, token, options, runner, runActionCall,
                   runActionError, cli_pc, exitCode>>

\* While runAction runs, an upsert closure of setSecrets logs that its
\* setSecret call failed (part_011:999, 1002): once per well-formed entry at
\* most.
upsertErrorLogged ==
    /\ cli_pc = "runAction"
    /\ \E i \in 1..Len(runActionCall[1].secrets) :
        LET secrets == runActionCall[1].secrets
            SameKey(entry) == entry \in UpsertErrorLogs(secrets)
                                /\ entry.arg = keyOf(secrets[i])
        IN  /\ ~isSkipped(secrets[i])
            /\ Cardinality({k \in 1..Len(errorLog) : SameKey(errorLog[k])})
                    < Cardinality({j \in 1..Len(secrets) :
                                    ~isSkipped(secrets[j])
                                    /\ keyOf(secrets[j]) = keyOf(secrets[i])})
            /\ \E entry \in UpsertErrorLogs(secrets) :
                /\ entry.arg = keyOf(secrets[i])
                /\ errorLog' = Append(errorLog, entry)
    /\ UNCHANGED <<NotCli, argv, token, options, runner, runActionCall,
                   runActionError, cli_pc, exitCode>>

\* The errors runAction can reject with after what setSecrets has logged: an
\* error of a stage before setSecrets when nothing was logged, the public
\* key error when secrets were given and no upsert has been sent.
PossibleErrors ==
    (IF errorLog = <<>> THEN BeforeSecretsErrors ELSE {})
    \cup (IF /\ runActionCall[1].secrets # <<>>
              /\ \A i \in 1..Len(errorLog) : errorLog[i] \in RemovalErrorLogs
           THEN {KeyError} ELSE {})
    \cup AfterSecretsErrors

\* runner.runAction settles: the catch logs the error and exits with 1.
runActionSettled ==
    /\ cli_pc = "runAction"
    /\ \E err \in {NoError} \cup PossibleErrors :
        /\ runActionError' = <<err>>
        /\ errorLog' = IF err = NoError THEN errorLog
                        ELSE Append(errorLog, Log("error", err.message, <<err.detail>>))
        /\ exitCode' = exitCodeAfter(err)
    /\ cli_pc' = "exited"
    /\ UNCHANGED <<NotCli, argv, token, options, runner, runActionCall>>

NextCli ==
    \/ parse
    \/ action
    \/ removalErrorLogged
    \/ upsertErrorLogged
    \/ runActionSettled

SpecCli == InitCli /\ [][NextCli]_vars

\* ------------------------------------------ downloadArtifacts on its own
InitArtifacts ==
    /\ opts = [commitTimeoutMs |-> 0, branchTimeoutMs |-> 0,
               workflowRunCreationTimeoutMs |-> 0,
               workflowRunCompletionTimeoutMs |-> 0,
               secrets |-> <<>>, syncSecrets |-> FALSE, artifactsPath |-> ""]
    /\ open = {"downloadArtifacts"}
    /\ pc = "done" /\ at = "probe"
    /\ now = 0 /\ startTime = 0 /\ lastCallMs = 0
    /\ probes = 0 /\ sleeps = 0
    /\ started = <<>>
    /\ outcome = "running" /\ error = NoError
    /\ lastLookup = <<>> /\ lastDispatch = <<>> /\ customWorkflowRunId = <<>>
    /\ dispatches = 0
    /\ found = <<>> /\ listThrew = FALSE
    /\ workflowRunInfo = <<>> /\ workflowRun = <<>>
    /\ secretCalls = {} /\ artifactCalls = {} /\ artifactsListed = <<>>
    /\ logFetches = <<>> /\ keyFetches = <<>> /\ secretsStored = {}
    /\ c_pc = "idle" /\ c_response = ListNoData /\ c_id = <<>> /\ c_result = <<>>
    /\ SecIdle
    /\ CliIdle /\ WinIdle
    /\ a_pc = "call"
    /\ a_listOk \in BOOLEAN
    /\ a_artifacts \in ListsUpTo(Artifacts, MaxArtifacts)
    /\ ~a_listOk => a_artifacts = <<>>
    /\ a_task = <<>> /\ a_issued = <<>>
    /\ a_settled = "pending" /\ a_error = NoError /\ a_written = {}

\* downloadArtifacts called on its own for a run with the artifacts
\* a_artifacts.
DownloadArtifactsCall ==
    /\ a_pc = "call"
    /\ \E d \in ArtifactCallDurations :
        listWorkflowArtifactsAnswered(a_listOk, a_artifacts, d)

NextArtifacts ==
    \/ DownloadArtifactsCall
    \/ downloadArtifactToPath

SpecArtifacts == InitArtifacts /\ [][NextArtifacts]_vars

\* ------------------------- the completion waiter and the list-runs window
\* waitForWorkflowRunCompletion against a remote on which the dispatched run
\* was created at runCreatedAt and reaches a terminal status at
\* runTerminalAt; the list calls take no time and never fail.
WindowTimeouts ==
    {DEFAULT_WORKFLOW_RUN_COMPLETION_TIMEOUT_MS,
     2 * DEFAULT_WORKFLOW_RUN_COMPLETION_TIMEOUT_MS}

\* The run becomes terminal a whole number of minutes after its creation.
TerminalTimes == {k * 12 * POLLING_INTERVAL_MS : k \in 0..MaxRunMinutes}

\* date.setTime(date.getTime() - WORKFLOW_CREATED_WITHIN_MS), read at time t.
createdSince(t) == t - WORKFLOW_CREATED_WITHIN_MS

\* GET /repos/{owner}/{repo}/actions/runs with created: `>=${createdSince}`,
\* asked at time t: the run is listed only if it was created since then.
listWorkflowRuns(t) ==
    IF runCreatedAt >= createdSince(t)
    THEN ListOf(<<IF t >= runTerminalAt
                  THEN Dispatched(customWorkflowRunId, "completed", "success")
                  ELSE Dispatched(customWorkflowRunId, "in_progress", Null)>>)
    ELSE ListOf(<<>>)

InitWindow ==
    /\ opts \in [commitTimeoutMs : {MaxTimeoutMs}, branchTimeoutMs : {MaxTimeoutMs},
                 workflowRunCreationTimeoutMs : {MaxTimeoutMs},
                 workflowRunCompletionTimeoutMs : WindowTimeouts,
                 secrets : {<<>>}, syncSecrets : {FALSE}, artifactsPath : {""}]
    /\ open = {"waitForWorkflowRunCompletion"}
    /\ pc = "waitForWorkflowRunCompletion" /\ at = "probe"
    /\ now \in {0, POLLING_INTERVAL_MS} /\ startTime = now /\ lastCallMs = 0
    /\ probes = 0 /\ sleeps = 0
    /\ started = SubSeq(StageOrder, 1, 6)
    /\ outcome = "running" /\ error = NoError
    /\ lastLookup = <<Resolved(Ok)>> /\ lastDispatch = <<Resolved(NoContent)>>
    /\ customWorkflowRunId \in CustomIds
    /\ dispatches = 1
    /\ found = <<Dispatched(customWorkflowRunId, "queued", Null)>>
    /\ listThrew = FALSE
    /\ workflowRunInfo = found /\ workflowRun = <<>>
    /\ secretCalls = {} /\ artifactCalls = {} /\ artifactsListed = <<>>
    /\ logFetches = <<>> /\ keyFetches = <<>> /\ secretsStored = {}
    /\ c_pc = "idle" /\ c_response = ListNoData /\ c_id = <<>> /\ c_result = <<>>
    /\ SecIdle
    /\ CliIdle /\ ArtIdle
    /\ runCreatedAt = 0
    /\ runTerminalAt \in TerminalTimes

\* One call of checkIfWorkflowRunCompleted answered by that remote.
checkIfWorkflowRunCompletedInWindow ==
    /\ checkIfWorkflowRunCompleted
    /\ lastCallMs' = 0
    /\ ~listThrew'
    /\ found' = getWorkflowRun(listWorkflowRuns(now), customWorkflowRunId)

NextWindow ==
    \/ checkIfWorkflowRunCompletedInWindow
    \/ sleep

SpecWindow == InitWindow /\ [][NextWindow]_vars

\* ================================================================ claims
LastStarted == started[Len(started)]
Elapsed == now - startTime
Rank(stage) == CHOOSE i \in 1..Len(StageOrder) : StageOrder[i] = stage
HasStarted(stage) == \E i \in 1..Len(started) : started[i] = stage

TimeoutError(stage) ==
    CASE stage = "waitForCommit" -> Error("Timeout waiting for commit", "")
      [] stage = "waitForBranch" -> Error("Timeout waiting for branch", "")
      [] stage = "waitForWorkflowRunCreation" ->
            Error("Timeout reached waiting for workflow run creation", "")
      [] stage = "waitForWorkflowRunCompletion" ->
            Error("Timeout reached waiting for workflow run completion", "")

ExistenceWaiters == {"waitForCommit", "waitForBranch"}

\* The lookup rejected with a status the waiter treats as "does not exist".
Retryable(w, r) ==
    /\ r.threw /\ r.hasStatus
    /\ \/ r.status = NotFound
       \/ w = "waitForCommit" /\ r.status = UnprocessableEntity

\* A stage is called, a waiter probes or sleeps, or an answer awaited by
\* setSecrets arrives.
StageStep ==
    \/ tryFetchCommit \/ tryFetchBranch \/ sleep
    \/ setSecrets \/ listSecretsAnswered \/ deleteSecretAnswered
    \/ getPublicKeyAnswered \/ setSecretAnswered
    \/ triggerWorkflow \/ checkIfWorkflowRunCreated \/ checkIfWorkflowRunCompleted
    \/ fetchWorkflowRunLogs \/ conclusionCheck \/ downloadArtifacts

\* C1: the stages of runAction start in the fixed order, each only while no
\* earlier stage has failed; once runAction has settled (a stage failed, or
\* the last stage returned) no stage is called and no waiter goes on: the
\* only steps left are those of downloads the last stage, downloadArtifacts,
\* had started before it failed.
C1_StagesInOrder ==
    /\ Len(started) >= 1
    /\ started = SubSeq(StageOrder, 1, Len(started))
    /\ pc # "done" => pc = LastStarted /\ outcome = "running" /\ error = NoError
    /\ pc = "done" => outcome \in {"resolved", "rejected"} /\ ~ENABLED StageStep
    /\ (pc = "done" /\ ENABLED Next) =>
            LastStarted = "downloadArtifacts" /\ outcome = "rejected"
    /\ (outcome = "rejected") = (error # NoError)
    /\ outcome = "resolved" => LastStarted \in {"conclusionCheck", "downloadArtifacts"}

\* A complete run: all nine stages started, in order, and runAction returned.
C1_Witness == pc = "done" /\ outcome = "resolved" /\ started = StageOrder

\* C2: a waiter that fails with its timeout error does so no earlier than T
\* after its start and no later than T + POLLING_INTERVAL_MS + the duration
\* of its last probe call; it is never asleep with more than T elapsed.
C2_TimeoutWindow ==
    /\ (pc = "done" /\ LastStarted \in WaitStages /\ error = TimeoutError(LastStarted))
        => /\ Elapsed >= TimeoutOf(opts, LastStarted)
           /\ Elapsed <= TimeoutOf(opts, LastStarted) + POLLING_INTERVAL_MS + lastCallMs
    /\ (pc \in WaitStages /\ at = "sleep") => Elapsed <= TimeoutOf(opts, pc)

\* The completion waiter timed out on a later probe that itself took time,
\* after a wait that did not start at time 0.
C2_Witness ==
    /\ pc = "done" /\ LastStarted = "waitForWorkflowRunCompletion"
    /\ error = TimeoutError(LastStarted)
    /\ TimeoutOf(opts, LastStarted) = MaxTimeoutMs
    /\ probes >= 3 /\ lastCallMs > 0 /\ startTime > 0

\* C3: a waiter whose Nth probe succeeds returns on that probe: before each
\* probe it has slept as often as it has probed, so it returns after N probes
\* and N - 1 sleeps, and what it returns is what that probe found.
C3_ReturnsOnNthProbe ==
    /\ (pc \in WaitStages /\ at = "probe") => sleeps = probes
    /\ (pc \in WaitStages /\ at = "sleep") => probes >= 1 /\ sleeps = probes - 1
    /\ ((pc = "setSecrets" /\ s_pc = "idle") \/ pc = "fetchWorkflowRunLogs") =>
            probes >= 1 /\ sleeps = probes - 1
    /\ (pc = "waitForWorkflowRunCompletion" /\ probes = 0) =>
            workflowRunInfo = found /\ found # <<>>
    /\ pc = "fetchWorkflowRunLogs" => workflowRun = found /\ found # <<>>

\* The completion waiter returned on its second probe, with 2 * interval < T.
C3_Witness ==
    /\ pc = "fetchWorkflowRunLogs" /\ probes = 2 /\ sleeps = 1
    /\ 2 * POLLING_INTERVAL_MS < opts.workflowRunCompletionTimeoutMs

\* C4: in waitForCommit a 404 or 422 answer, in waitForBranch a 404 answer,
\* does not fail the waiter: it sleeps and looks up again unless its timeout
\* has elapsed (then it fails with the timeout error); after a 200 answer the
\* waiter makes no further step.
C4_NotFoundIsRetried ==
    \A w \in ExistenceWaiters :
        (LastStarted = w /\ probes > 0) =>
            /\ lastLookup # <<Resolved(Ok)>>
            /\ Retryable(w, lastLookup[1]) =>
                IF pc = "done"
                THEN error = TimeoutError(w) /\ Elapsed > TimeoutOf(opts, w)
                ELSE /\ pc = w
                     /\ at = "sleep" => Elapsed <= TimeoutOf(opts, w) /\ ENABLED sleep
                     /\ at = "probe" => sleeps = probes /\ ENABLED (tryFetchCommit \/ tryFetchBranch)

\* waitForCommit got 422, slept, and is about to look up again.
C4_Witness ==
    /\ pc = "waitForCommit" /\ at = "probe" /\ probes = 1 /\ sleeps = 1
    /\ lastLookup = <<Rejected(UnprocessableEntity)>>

\* C5 as claimed: every answer other than 200, 404 and (commit) 422, a
\* non-200 success response included, fails the waiter at once.
C5_AnyOtherAnswerIsFatal ==
    \A w \in ExistenceWaiters :
        (LastStarted = w /\ probes > 0 /\ lastLookup # <<Resolved(Ok)>>
            /\ ~Retryable(w, lastLookup[1]))
        => pc = "done" /\ outcome = "rejected" /\ sleeps = probes - 1

\* C5 amended: a lookup that rejects with any other status (422 for the
\* branch lookup included) or with a transport error fails the waiter at once
\* with that error, no sleep or lookup following; a lookup that resolves with
\* a status other than 200 is treated as "does not exist yet".
C5_RejectedLookupIsFatal ==
    \A w \in ExistenceWaiters :
        (LastStarted = w /\ probes > 0) =>
            /\ (lastLookup[1].threw /\ ~Retryable(w, lastLookup[1])) =>
                /\ pc = "done" /\ outcome = "rejected"
                /\ error = ApiError(lastLookup[1])
                /\ sleeps = probes - 1
            /\ (~lastLookup[1].threw /\ lastLookup[1].status # Ok) =>
                IF pc = "done"
                THEN error = TimeoutError(w) /\ Elapsed > TimeoutOf(opts, w)
                ELSE pc = w

\* waitForBranch failed on a 422 on its second lookup, with time remaining.
C5_Witness ==
    /\ pc = "done" /\ LastStarted = "waitForBranch"
    /\ lastLookup = <<Rejected(UnprocessableEntity)>>
    /\ error = ApiError(Rejected(UnprocessableEntity))
    /\ probes = 2 /\ Elapsed < opts.branchTimeoutMs

\* C6: the custom id is returned, and the run list is polled, only after a
\* dispatch that reported 204; a dispatch that reports another status fails
\* runAction with an error carrying that status.
C6_DispatchNeeds204 ==
    /\ customWorkflowRunId # <<>> => lastDispatch = <<Resolved(NoContent)>>
    /\ HasStarted("waitForWorkflowRunCreation") =>
            lastDispatch = <<Resolved(NoContent)>> /\ customWorkflowRunId # <<>>
    /\ (lastDispatch # <<>> /\ ~lastDispatch[1].threw
            /\ lastDispatch[1].status # NoContent) =>
        /\ pc = "done" /\ outcome = "rejected"
        /\ error = Error("Failed to trigger workflow", ToString(lastDispatch[1].status))
        /\ LastStarted = "triggerWorkflow"
        /\ customWorkflowRunId = <<>>

\* The dispatch reported 200 and runAction failed with that status.
C6_Witness ==
    /\ lastDispatch = <<Resolved(Ok)>>
    /\ error = Error("Failed to trigger workflow", "200")
    /\ pc = "done"

\* needle occurs in hay: hay = prefix \o needle \o suffix.
Contains(hay, needle) ==
    \E i \in 1..(Len(hay) + 1) :
        \E j \in (i - 1)..Len(hay) : SubSeq(hay, i, j) = needle

ListedRuns == IF c_response.hasRuns THEN c_response.workflow_runs ELSE <<>>
Matching == {i \in 1..Len(ListedRuns) :
                ListedRuns[i].named /\ Contains(ListedRuns[i].name, c_id)}

\* C7: getWorkflowRun returns the first listed run whose name contains the
\* custom id as a substring, and null when no listed run's name contains it;
\* a run without a name never matches.
C7_FirstMatchingRun ==
    c_pc = "output" =>
        IF Matching = {} THEN c_result = <<>>
        ELSE c_result = <<ListedRuns[CHOOSE i \in Matching : \A j \in Matching : i <= j]>>

\* An unnamed run first, then two runs whose longer names contain the id:
\* the first of the two is returned.
C7_Witness ==
    /\ c_pc = "output" /\ Matching = {2, 3}
    /\ c_result = <<ListedRuns[2]>>
    /\ ~ListedRuns[1].named
    /\ ListedRuns[2].name # c_id

\* C8: waitForWorkflowRunCreation returns the run of the first poll that
\* finds one, whatever its status; while it waits no poll has found a run and
\* it is asleep only within its timeout; when no list call fails, its only
\* failure is the timeout error, with the timeout elapsed and no run found.
C8_CreationReturnsFirstFound ==
    /\ pc = "waitForWorkflowRunCreation" => found = <<>> /\ workflowRunInfo = <<>>
    /\ (pc = "waitForWorkflowRunCreation" /\ at = "sleep") =>
            Elapsed <= opts.workflowRunCreationTimeoutMs
    /\ (pc = "waitForWorkflowRunCompletion" /\ probes = 0) =>
            /\ workflowRunInfo = found
            /\ workflowRunInfo \in {<<r>> : r \in DispatchedRuns(customWorkflowRunId)}
    /\ (pc = "done" /\ LastStarted = "waitForWorkflowRunCreation" /\ ~listThrew) =>
            /\ error = TimeoutError(LastStarted)
            /\ found = <<>>
            /\ Elapsed > opts.workflowRunCreationTimeoutMs

\* The creation waiter returned a run that was already completed.
C8_Witness ==
    /\ pc = "waitForWorkflowRunCompletion" /\ probes = 0
    /\ workflowRunInfo # <<>> /\ workflowRunInfo[1].status = "completed"

\* C9 as claimed: the completion waiter never returns a run in progress, and
\* a poll that finds the run with any status string outside the in-progress
\* set returns it: the waiter goes on only if the status is in the set (or
\* is not a string).
C9_AnyOtherStatusReturns ==
    /\ workflowRun # <<>> => workflowRun[1].status \notin IN_PROGRESS_STATUSES
    /\ (LastStarted = "waitForWorkflowRunCompletion" /\ probes > 0 /\ ~listThrew
            /\ found # <<>>) =>
            found[1].status \in IN_PROGRESS_STATUSES \cup {Null}

\* C9 amended: the completion waiter never returns a run in progress, and a
\* poll that finds the run with a non-empty status string that is neither in
\* the in-progress set nor the name of a property objects inherit
\* ("constructor", "toString", ...) returns it on that poll, without a
\* further sleep.
C9_NonEmptyOtherStatusReturns ==
    /\ workflowRun # <<>> =>
            workflowRun[1].status \notin IN_PROGRESS_STATUSES \cup InheritedKeys \cup {Null, ""}
    /\ (LastStarted = "waitForWorkflowRunCompletion" /\ probes > 0 /\ ~listThrew
            /\ found # <<>>) =>
            found[1].status \in IN_PROGRESS_STATUSES \cup InheritedKeys \cup {Null, ""}
    /\ pc = "fetchWorkflowRunLogs" => workflowRun = found /\ sleeps = probes - 1

\* The completion waiter returned a run with an unrecognised status on its
\* second poll.
C9_Witness ==
    /\ pc = "fetchWorkflowRunLogs" /\ probes = 2
    /\ workflowRun # <<>> /\ workflowRun[1].status = "future_status"

\* C10: a completion poll whose list call returns, with the run in it or not,
\* never fails the waiter unless the run-completion timeout has elapsed, and
\* then the failure is the timeout error; after a poll that did not find the
\* run the waiter is still polling while its timeout has not elapsed.
C10_VanishedRunKeepsPolling ==
    /\ (pc = "done" /\ LastStarted = "waitForWorkflowRunCompletion" /\ ~listThrew) =>
            /\ outcome = "rejected"
            /\ error = TimeoutError(LastStarted)
            /\ Elapsed > opts.workflowRunCompletionTimeoutMs
    /\ (LastStarted = "waitForWorkflowRunCompletion" /\ probes > 0 /\ found = <<>>
            /\ ~listThrew /\ Elapsed <= opts.workflowRunCompletionTimeoutMs) =>
            pc = "waitForWorkflowRunCompletion"

\* The run the creation waiter had found is missing from a completion poll,
\* and the waiter sleeps to poll again.
C10_Witness ==
    /\ pc = "waitForWorkflowRunCompletion" /\ at = "sleep"
    /\ found = <<>> /\ workflowRunInfo # <<>>

\* C11: once the completion waiter has returned a run, runAction gets past
\* the conclusion check only if the run's conclusion is 'success'; with any
\* other conclusion it fails there, with an error carrying that conclusion.
C11_ConclusionMustBeSuccess ==
    HasStarted("conclusionCheck") =>
        /\ workflowRun # <<>>
        /\ (pc = "downloadArtifacts" \/ HasStarted("downloadArtifacts")
                \/ outcome = "resolved")
            => workflowRun[1].conclusion = "success"
        /\ (pc # "conclusionCheck" /\ workflowRun[1].conclusion # "success") =>
            /\ pc = "done" /\ outcome = "rejected"
            /\ LastStarted = "conclusionCheck"
            /\ error = Error("Workflow run failed with conclusion",
                             workflowRun[1].conclusion)

\* A run whose conclusion is null failed the check with that conclusion.
C11_Witness ==
    /\ pc = "done" /\ LastStarted = "conclusionCheck"
    /\ workflowRun # <<>> /\ workflowRun[1].conclusion = Null
    /\ error = Error("Workflow run failed with conclusion", Null)

\* ------------------------------------------------ claims about setSecrets
\* Position of the first '=' of an entry, 0 when it has none.
FirstEq(entry) ==
    IF \E i \in 1..Len(entry) : entry[i] = "="
    THEN CHOOSE i \in 1..Len(entry) :
            entry[i] = "=" /\ \A j \in 1..(i - 1) : entry[j] # "="
    ELSE 0

\* KEY and VALUE of a KEY=VALUE entry: the text before the first '=' and
\* the text after it up to the next '='.
KeyPart(entry) == SubSeq(entry, 1, FirstEq(entry) - 1)
ValuePart(entry) ==
    LET rest == SubSeq(entry, FirstEq(entry) + 1, Len(entry))
    IN  IF FirstEq(rest) = 0 THEN rest ELSE SubSeq(rest, 1, FirstEq(rest) - 1)

WellFormed(entry) ==
    FirstEq(entry) > 0 /\ KeyPart(entry) # <<>> /\ ValuePart(entry) # <<>>

WellFormedAt(secrets) == {i \in 1..Len(secrets) : WellFormed(secrets[i])}
DesiredKeys(secrets) == {KeyPart(secrets[i]) : i \in WellFormedAt(secrets)}

\* deleteSecret / setSecret calls of the finished call that failed.
FailedDeletes == Names(s_result.deleted) \cap s_remote.deleteFails
FailedUpserts == s_result.upserted \cap s_remote.upsertFails

\* C12 as claimed: with prune on and every desired entry well formed, the
\* names deleteSecret is called for are exactly the existing names that are
\* not a desired key, and the well-formed entries are upserted.
C12_PruneDeletesExactlyUndesired ==
    (s_pc = "output" /\ s_syncSecrets /\ s_remote.listOk
        /\ WellFormedAt(s_secrets) = 1..Len(s_secrets)) =>
        Names(s_result.deleted) = Names(s_remote.existing) \ DesiredKeys(s_secrets)

\* C13: with prune off setSecrets calls neither listSecrets nor deleteSecret
\* and upserts only desired keys, so an existing secret whose name is not a
\* desired key is not touched.
C13_NoPruneNoListNoDelete ==
    (s_pc = "output" /\ ~s_syncSecrets) =>
        /\ ~s_result.listed
        /\ s_result.deleted = <<>> /\ s_result.removed = {}
        /\ SecretEndpoints(s_result) \cap {"listSecrets", "deleteSecret"} = {}
        /\ \A i \in s_result.upserted : KeyPart(s_secrets[i]) \in DesiredKeys(s_secrets)
        /\ \A n \in Names(s_remote.existing) \ DesiredKeys(s_secrets) :
                \A i \in s_result.upserted : keyOf(s_secrets[i]) # n

\* Prune is off, the repository holds C, and A=1 was upserted.
C13_Witness ==
    /\ s_pc = "output" /\ ~s_syncSecrets
    /\ <<"C">> \in Names(s_remote.existing)
    /\ s_secrets = <<<<"A", "=", "1">>>>
    /\ s_result.stored = {1}

\* C14 as claimed: with prune on, when a deleteSecret call fails, every
\* deletion is still attempted and setSecrets then fails.
C14_FailedDeletionFailsSetSecrets ==
    (s_pc = "output" /\ s_syncSecrets /\ FailedDeletes # {}) =>
        /\ Names(s_remote.existing) \ DesiredKeys(s_secrets)
                \subseteq Names(s_result.deleted)
        /\ s_result.threw

\* C15 as claimed: when a setSecret call fails, every well-formed entry is
\* still upserted and setSecrets then fails.
C15_FailedUpsertFailsSetSecrets ==
    (s_pc = "output" /\ FailedUpserts # {}) =>
        /\ s_result.upserted = WellFormedAt(s_secrets)
        /\ s_result.threw

\* C16: an entry without '=', or with an empty key or value, is skipped with
\* a warning: setSecret is not called for it, setSecrets fails only when
\* listSecrets or getPublicKey fails, and once the public key is there the
\* well-formed entries are all upserted.
C16_MalformedEntryIsSkipped ==
    s_pc = "output" =>
        /\ \A i \in 1..Len(s_secrets) :
            ~WellFormed(s_secrets[i]) =>
                /\ i \notin s_result.upserted
                /\ (~s_result.threw) =>
                    \E l \in s_result.logs : l.level = "warn" /\ l.arg = s_secrets[i]
        /\ s_result.threw =>
            \/ s_syncSecrets /\ ~s_remote.listOk
            \/ ~s_remote.keyOk
        /\ (~s_result.threw /\ Len(s_secrets) > 0) =>
            s_result.upserted = WellFormedAt(s_secrets)

\* An entry with an empty value precedes a well-formed one: only the second
\* is upserted, and the call returns normally.
C16_Witness ==
    /\ s_pc = "output"
    /\ s_secrets = <<<<"A", "=">>, <<"B", "=", "2">>>>
    /\ s_result.upserted = {2} /\ s_result.stored = {2}
    /\ ~s_result.threw

\* C17 as claimed: no log message of a setSecrets call contains the VALUE
\* part of a desired entry, malformed entries included.
C17_NoValueIsLogged ==
    s_pc = "output" =>
        \A i \in 1..Len(s_secrets) :
            (FirstEq(s_secrets[i]) > 0 /\ ValuePart(s_secrets[i]) # <<>>) =>
                \A l \in s_result.logs : ~Contains(l.arg, ValuePart(s_secrets[i]))

\* ------------------------------------------ claims about downloadArtifacts
DownloadCalls == {c \in artifactCalls : c.artifact > 0}

\* C18: when the artifact list of the run is empty, downloadArtifacts (and
\* with it runAction) fails with the 'No artifacts found' error, and no
\* download URL is requested, nothing is downloaded or extracted.
C18_EmptyArtifactListFails ==
    artifactsListed = <<<<>>>> =>
        /\ pc = "done" /\ outcome = "rejected"
        /\ LastStarted = "downloadArtifacts"
        /\ error = Error("No artifacts found for the workflow run", "")
        /\ DownloadCalls = {}
        /\ artifactCalls = {ArtifactCall("listWorkflowArtifacts", 0, TRUE)}

\* The run succeeded, its artifact list is empty, runAction failed.
C18_Witness ==
    /\ artifactsListed = <<<<>>>>
    /\ workflowRun # <<>> /\ workflowRun[1].conclusion = "success"
    /\ error.message = "No artifacts found for the workflow run"

\* The downloadArtifactToPath calls that have thrown.
FailedTasks == {i \in 1..Len(a_task) : a_task[i] = "failed"}

\* C19: as soon as the download of any one artifact has failed, at whichever
\* step (URL request, download status, size ceiling, making the destination
\* directory, extraction),
\* downloadArtifacts has failed with the download error of a failed artifact
\* and runAction is rejected with it, whatever the other downloads do; and
\* runAction resolves after downloadArtifacts only when every download
\* succeeded.
C19_OneFailedArtifactFailsAll ==
    /\ FailedTasks # {} =>
        /\ a_settled = "rejected"
        /\ pc = "done" /\ outcome = "rejected"
        /\ LastStarted = "downloadArtifacts"
        /\ error = a_error
        /\ error.message = "Error downloading or extracting file"
        /\ \E i \in FailedTasks :
                error.detail =
                    IF ArtifactCall("ensureDir", i, FALSE) \in artifactCalls
                    THEN "ensureDir" ELSE a_artifacts[i].ending
        /\ \A i \in FailedTasks :
                \E c \in artifactCalls : c.artifact = i /\ ~c.ok
    /\ (outcome = "resolved" /\ LastStarted = "downloadArtifacts") =>
        \A i \in 1..Len(a_task) : a_task[i] = "done" /\ a_artifacts[i].ending = "ok"

\* The first artifact was downloaded and extracted, the extraction of the
\* second failed, and runAction failed.
C19_Witness ==
    /\ artifactsListed = <<<<"ok", "extract">>>>
    /\ a_task = <<"done", "failed">>
    /\ ArtifactCall("extract", 1, TRUE) \in artifactCalls
    /\ ArtifactCall("extract", 2, FALSE) \in artifactCalls
    /\ outcome = "rejected" /\ error.detail = "extract"

\* C20: a successful runAction without secrets, with sync-secrets off and
\* without an artifacts path went through commit lookups, branch lookups,
\* one dispatch, creation polls, completion polls, one log fetch and the
\* success check, in this order, and called no secret and no artifact
\* endpoint.
C20_PlainRunInteractions ==
    (outcome = "resolved" /\ opts.secrets = <<>> /\ ~opts.syncSecrets
        /\ opts.artifactsPath = "") =>
        /\ started = SubSeq(StageOrder, 1, Rank("conclusionCheck"))
        /\ secretCalls = {}
        /\ artifactCalls = {} /\ artifactsListed = <<>>
        /\ lastLookup = <<Resolved(Ok)>>
        /\ lastDispatch = <<Resolved(NoContent)>>
        /\ workflowRunInfo # <<>> /\ workflowRun # <<>>
        /\ workflowRun[1].conclusion = "success"

\* Such a run, found queued by the creation waiter and completed with
\* 'success' when the completion waiter returned.
C20_Witness ==
    /\ outcome = "resolved" /\ opts.secrets = <<>> /\ ~opts.syncSecrets
    /\ opts.artifactsPath = ""
    /\ started = SubSeq(StageOrder, 1, 8)
    /\ workflowRunInfo # <<>> /\ workflowRunInfo[1].status = "queued"
    /\ workflowRun # <<>> /\ workflowRun[1].status = "completed"

\* ----------------------------------------- claims about the command line
\* C21: when GITHUB_TOKEN is absent (or empty) the command logs the error and
\* exits with code 1 without constructing the runner or calling runAction;
\* a runner is only ever constructed with a token.
C21_MissingTokenExitsFirst ==
    /\ (cli_pc = "exited" /\ token \in {<<>>, <<"">>}) =>
        /\ exitCode = 1
        /\ errorLog = <<Log("error", "The <GITHUB_TOKEN> environment variable is required.",
                            <<>>)>>
        /\ ~runner /\ runActionCall = <<>> /\ runActionError = <<>>
    /\ (runner \/ runActionCall # <<>>) => token \notin {<<>>, <<"">>}

\* The command was given options, has no token, and has exited.
C21_Witness ==
    /\ cli_pc = "exited" /\ token = <<>> /\ Len(argv) = MaxArgs
    /\ exitCode = 1 /\ ~runner

\* The entries of the error log that setSecrets wrote while runAction ran.
SecretErrorLogs == RemovalErrorLogs \cup UpsertErrorLogs(runActionCall[1].secrets)

\* C22: the command ends with exit code 0 only after runAction resolved, and
\* always then; when runAction rejects, at whichever stage, its error is the
\* last entry logged and the exit code is 1.  What the error log holds
\* besides is what setSecrets logged about failed removals and upserts,
\* which do not fail runAction.
C22_ExitCodeReflectsRunAction ==
    /\ cli_pc = "exited" <=> exitCode # -1
    /\ exitCode \in {-1, 0, 1}
    /\ exitCode = 0 =>
        /\ runActionError = <<NoError>>
        /\ \A i \in 1..Len(errorLog) : errorLog[i] \in SecretErrorLogs
    /\ runActionError = <<NoError>> => exitCode = 0
    /\ runActionError # <<>> => runActionError[1] \in {NoError} \cup RunActionErrors
    /\ \A err \in RunActionErrors :
        runActionError = <<err>> =>
            /\ exitCode = 1
            /\ errorLog # <<>>
            /\ errorLog[Len(errorLog)] = Log("error", err.message, <<err.detail>>)
            /\ \A i \in 1..(Len(errorLog) - 1) : errorLog[i] \in SecretErrorLogs

\* An upsert failed and was logged, then runAction rejected with a failed
\* conclusion and the command exited with 1.
C22_Witness ==
    /\ cli_pc = "exited" /\ exitCode = 1
    /\ runActionError = <<Error("Workflow run failed with conclusion", "failure")>>
    /\ Len(errorLog) = 2
    /\ errorLog[1] = Log("error", "Error setting secret", <<"A">>)

\* The values of the --secret options of the command line, in order.
RECURSIVE SecretsGiven(_)
SecretsGiven(args) ==
    IF args = <<>> THEN <<>>
    ELSE (IF args[1].option = "secret" THEN <<args[1].value>> ELSE <<>>)
            \o SecretsGiven(Tail(args))

\* C23: runAction receives as secrets the values of the --secret options in
\* the order given, none lost, and the empty list when there is none.
C23_SecretsCollectedInOrder ==
    /\ cli_pc \notin {"parse", "idle"} => options.secret = SecretsGiven(argv)
    /\ runActionCall # <<>> => runActionCall[1].secrets = SecretsGiven(argv)

\* --secret B=2 --secret A=1 reached runAction as [B=2, A=1].
C23_Witness ==
    /\ runActionCall # <<>>
    /\ runActionCall[1].secrets = <<<<"B", "=", "2">>, <<"A", "=", "1">>>>
    /\ Len(argv) = 2

\* The whole number of seconds a timeout value denotes.
WholeSeconds ==
    [v \in {<<"0">>, <<"7">>, <<"3", "0">>, <<"-", "5">>, <<"+", "7">>, <<" ", "7">>,
            <<"U+00A0", "7">>} |->
        CASE v = <<"0">> -> 0 [] v = <<"7">> -> 7 [] v = <<"3", "0">> -> 30
          [] v = <<"-", "5">> -> -5 [] v = <<"+", "7">> -> 7 [] v = <<" ", "7">> -> 7
          [] v = <<"U+00A0", "7">> -> 7]

\* Positions of the command line that give the timeout option o.
GivenAt(o) == {i \in 1..Len(argv) : argv[i].option = o}
LastGiven(o) == argv[CHOOSE i \in GivenAt(o) : \A j \in GivenAt(o) : j <= i].value

TimeoutPassed(o) ==
    CASE o = "commitTimeout" -> runActionCall[1].commitTimeoutMs
      [] o = "branchTimeout" -> runActionCall[1].branchTimeoutMs
      [] o = "workflowRunCreationTimeout" -> runActionCall[1].workflowRunCreationTimeoutMs
      [] o = "workflowRunCompletionTimeout" -> runActionCall[1].workflowRunCompletionTimeoutMs

\* C24: each timeout option hands runAction 300000 ms when it is omitted and
\* N * 1000 ms when it is given as a whole number N of seconds, with or
\* without a sign or leading white space, a no-break space included (a
\* fraction of a second in the value is dropped; a value that is no number
\* gives NaN).
C24_TimeoutsInMilliseconds ==
    runActionCall # <<>> =>
        \A o \in TimeoutOptions :
            IF GivenAt(o) = {} THEN TimeoutPassed(o) = 300000
            ELSE IF LastGiven(o) \in DOMAIN WholeSeconds
            THEN TimeoutPassed(o) = WholeSeconds[LastGiven(o)] * 1000
            ELSE IF LastGiven(o) = <<"1", ".", "5">> THEN TimeoutPassed(o) = 1000
            ELSE LastGiven(o) = <<"a">> /\ TimeoutPassed(o) = NaN

\* --commit-timeout 30 given, the other timeouts omitted.
C24_Witness ==
    /\ runActionCall # <<>>
    /\ argv = <<[option |-> "commitTimeout", value |-> <<"3", "0">>]>>
    /\ runActionCall[1].commitTimeoutMs = 30000
    /\ runActionCall[1].workflowRunCompletionTimeoutMs = 300000

\* ------------------------------------------------- claims about runAction
\* C25: every wait stage reads its start time when it is entered and keeps
\* it while it polls, and its timeout is tested against the time elapsed
\* since then: time spent in earlier stages, in setSecrets or in the
\* dispatch does not count against it.
C25_OwnClockPerWaiter ==
    /\ [][(pc' \in WaitStages /\ pc' # pc) => startTime' = now']_vars
    /\ [][(pc \in WaitStages /\ pc' = pc) => startTime' = startTime]_vars
    /\ []((pc \in WaitStages /\ probes = 0 /\ at = "probe") => startTime = now)
    /\ []((pc = "done" /\ LastStarted \in WaitStages /\ error = TimeoutError(LastStarted))
            => now - startTime > TimeoutOf(opts, LastStarted))

\* The completion waiter sleeps for its next poll although the stages before
\* it took longer than its whole timeout.
C25_Witness ==
    /\ pc = "waitForWorkflowRunCompletion" /\ at = "sleep"
    /\ startTime > opts.workflowRunCompletionTimeoutMs
    /\ opts.workflowRunCompletionTimeoutMs > 0

\* C26: at most one dispatch call is made in an invocation, no stage is
\* started twice, and after a failure runAction has settled: only the polls
\* inside a wait stage repeat.
C26_NoRetryOutsidePolling ==
    /\ dispatches <= 1
    /\ dispatches = Len(lastDispatch)
    /\ \A i, j \in 1..Len(started) : started[i] = started[j] => i = j
    /\ error # NoError => pc = "done" /\ outcome = "rejected"

\* The dispatch was rejected: runAction failed after that one call.
C26_Witness ==
    /\ pc = "done" /\ LastStarted = "triggerWorkflow"
    /\ dispatches = 1 /\ lastDispatch = <<Rejected(NotFound)>>
    /\ outcome = "rejected"

\* ------------------------------------- claims about entries and failures
\* The whole text after the first '=' of an entry.
AfterFirstEq(entry) == SubSeq(entry, FirstEq(entry) + 1, Len(entry))

\* C27 as claimed: for every entry setSecret is called for, the key is the
\* text before the first '=' and the value sealed and upserted is the whole
\* text after the first '=', also when that text contains '='.
C27_ValueIsTextAfterFirstEq ==
    s_pc = "output" =>
        \A e \in s_result.sealed :
            /\ e.key = KeyPart(s_secrets[e.at])
            /\ e.value = AfterFirstEq(s_secrets[e.at])

\* C28: with an empty desired list setSecrets fetches no public key and
\* upserts nothing; with prune on it lists the secrets and calls deleteSecret
\* for every existing one, with prune off it calls no endpoint at all.
C28_EmptyListOnlyPrunes ==
    (s_pc = "output" /\ s_secrets = <<>>) =>
        /\ ~s_result.keyFetched
        /\ s_result.upserted = {} /\ s_result.sealed = {}
        /\ SecretEndpoints(s_result) \cap {"getPublicKey", "setSecret"} = {}
        /\ s_syncSecrets =>
            /\ s_result.listed
            /\ s_remote.listOk =>
                /\ s_result.deleted = s_remote.existing
                /\ s_result.removed = Names(s_remote.existing) \ s_remote.deleteFails
        /\ ~s_syncSecrets => SecretEndpoints(s_result) = {}

\* The desired list is empty, prune is on, and the two existing secrets were
\* both deleted.
C28_Witness ==
    /\ s_pc = "output" /\ s_secrets = <<>> /\ s_syncSecrets
    /\ Len(s_remote.existing) = 2
    /\ s_result.removed = Names(s_remote.existing)
    /\ ~s_result.keyFetched /\ ~s_result.threw

\* C29: when the public key fetch of runAction's setSecrets call fails, no
\* setSecret call is made, setSecrets and runAction reject with the public
\* key error, and no dispatch is issued.
C29_KeyFetchFailureStopsTheRun ==
    (keyFetches # <<>> /\ keyFetches[Len(keyFetches)] = "failed") =>
        /\ Len(keyFetches) = 1
        /\ "getPublicKey" \in secretCalls
        /\ "setSecret" \notin secretCalls
        /\ pc = "done" /\ outcome = "rejected"
        /\ error = Error("Failed to retrieve the public key for encryption.", "")
        /\ LastStarted = "setSecrets"
        /\ ~HasStarted("triggerWorkflow")
        /\ dispatches = 0 /\ lastDispatch = <<>>

\* runAction was given a well-formed entry, the public key fetch failed, and
\* the run is rejected with nothing dispatched.
C29_Witness ==
    /\ pc = "done" /\ LastStarted = "setSecrets"
    /\ WellFormedAt(opts.secrets) # {}
    /\ keyFetches = <<"failed">>
    /\ outcome = "rejected" /\ dispatches = 0

\* C30: when the log fetch fails after the completion waiter returned,
\* runAction rejects with the log-fetch error whatever the conclusion of the
\* run is; the conclusion is not checked and no artifact call is made.
C30_LogFetchFailureIsFatal ==
    (logFetches # <<>> /\ logFetches[Len(logFetches)] = "failed") =>
        /\ Len(logFetches) = 1
        /\ HasStarted("waitForWorkflowRunCompletion")
        /\ pc = "done" /\ LastStarted = "fetchWorkflowRunLogs"
        /\ outcome = "rejected"
        /\ error.message = "Failed to fetch logs"
        /\ error.detail \in {"getWorkflowRunLogsUrl", "download", "unzip"}
        /\ ~HasStarted("conclusionCheck")
        /\ ~HasStarted("downloadArtifacts")
        /\ artifactCalls = {} /\ artifactsListed = <<>>

\* The run concluded 'success', the log fetch failed, and runAction is
\* rejected.
C30_Witness ==
    /\ pc = "done" /\ logFetches = <<"failed">>
    /\ error = Error("Failed to fetch logs", "unzip")
    /\ workflowRun # <<>> /\ workflowRun[1].conclusion = "success"
    /\ outcome = "rejected"

\* -------------------------------------- claims about artifacts and waiters
\* C31: an artifact endpoint is called, and anything downloaded or extracted,
\* only when an artifacts path was given and the run the completion waiter
\* returned concluded 'success'; in every other execution downloadArtifacts
\* is not started and no artifact call is made.
C31_ArtifactsOnlyOnSuccessWithPath ==
    /\ (artifactCalls # {} \/ artifactsListed # <<>> \/ HasStarted("downloadArtifacts")) =>
        /\ opts.artifactsPath # ""
        /\ workflowRun # <<>> /\ workflowRun[1].conclusion = "success"
        /\ logFetches = <<"fetched">>
    /\ artifactCalls # {} => HasStarted("downloadArtifacts")
    /\ (pc = "done" /\ (opts.artifactsPath = "" \/ workflowRun = <<>>
                            \/ workflowRun[1].conclusion # "success")) =>
        /\ artifactCalls = {} /\ artifactsListed = <<>>
        /\ ~HasStarted("downloadArtifacts")

\* A path was given, the run concluded 'success', and an artifact was
\* downloaded and extracted.
C31_Witness ==
    /\ pc = "done" /\ outcome = "resolved"
    /\ opts.artifactsPath = "out"
    /\ workflowRun # <<>> /\ workflowRun[1].conclusion = "success"
    /\ ArtifactCall("extract", 1, TRUE) \in artifactCalls

\* C37: neither run waiter returns null: a waiter that has returned has
\* handed over a run record, a waiter that failed has failed with its
\* timeout error or with the error of the list call, and runAction never
\* fails with 'Workflow run not found.'.
C37_RunWaitersNeverReturnNull ==
    /\ error # Error("Workflow run not found.", "")
    /\ HasStarted("waitForWorkflowRunCompletion") => workflowRunInfo # <<>>
    /\ HasStarted("fetchWorkflowRunLogs") => workflowRun # <<>>
    /\ (pc = "done" /\ LastStarted \in {"waitForWorkflowRunCreation",
                                          "waitForWorkflowRunCompletion"}) =>
        /\ outcome = "rejected"
        /\ error \in {TimeoutError(LastStarted), Error("RequestError", "")}

\* The creation waiter never found the run and failed with its timeout
\* error.
C37_Witness ==
    /\ pc = "done" /\ LastStarted = "waitForWorkflowRunCreation"
    /\ found = <<>> /\ ~listThrew /\ workflowRunInfo = <<>>
    /\ error = TimeoutError("waitForWorkflowRunCreation")

\* C38: the completion waiter never returns a run whose status is null or
\* empty; after a poll that found the run with such a status the waiter is
\* still polling, unless its timeout had elapsed and it failed with the
\* timeout error.
C38_EmptyStatusIsNotTerminal ==
    /\ workflowRun # <<>> => workflowRun[1].status \notin {Null, ""}
    /\ (LastStarted = "waitForWorkflowRunCompletion" /\ probes > 0 /\ ~listThrew
            /\ found # <<>> /\ found[1].status \in {Null, ""}) =>
        \/ pc = "waitForWorkflowRunCompletion"
        \/ /\ pc = "done" /\ outcome = "rejected"
           /\ error = TimeoutError("waitForWorkflowRunCompletion")
           /\ Elapsed > opts.workflowRunCompletionTimeoutMs

\* A completion poll found the run with an empty status, and the waiter
\* sleeps to poll again.
C38_Witness ==
    /\ pc = "waitForWorkflowRunCompletion" /\ at = "sleep"
    /\ found # <<>> /\ found[1].status = ""

\* The probe made in this step succeeded: the lookup says the object exists,
\* the run is listed (creation), the run is listed with a final status
\* (completion).
ProbeSucceeded(stage, response, run, threw) ==
    CASE stage = "waitForCommit" -> hasCommit(response) = "true"
      [] stage = "waitForBranch" -> hasBranch(response) = "true"
      [] stage = "waitForWorkflowRunCreation" -> ~threw /\ run # <<>>
      [] stage = "waitForWorkflowRunCompletion" ->
            ~threw /\ run # <<>> /\ isFinal(run[1].status)

\* C39: a waiter that fails with its timeout error has called its probe at
\* least once, and the probe of that attempt did not succeed; a probe that
\* succeeds makes the waiter return, whatever the time elapsed since the
\* waiter started.
C39_ProbeBeforeTimeout ==
    /\ []((pc = "done" /\ LastStarted \in WaitStages
                /\ error = TimeoutError(LastStarted)) =>
            /\ probes >= 1
            /\ Elapsed > TimeoutOf(opts, LastStarted)
            /\ ~ProbeSucceeded(LastStarted,
                               IF lastLookup = <<>> THEN TransportError ELSE lastLookup[1],
                               found, listThrew))
    /\ [][(/\ pc \in WaitStages /\ at = "probe"
            /\ ProbeSucceeded(pc,
                              IF lastLookup' = <<>> THEN TransportError ELSE lastLookup'[1],
                              found', listThrew'))
            => /\ pc' = StageOrder[Rank(pc) + 1]
               /\ outcome' = "running" /\ error' = NoError]_vars

\* The completion waiter was called with timeout 0, its first probe took
\* longer than that and found the run completed: the waiter returned it.
C39_Witness ==
    /\ pc = "fetchWorkflowRunLogs"
    /\ opts.workflowRunCompletionTimeoutMs = 0
    /\ Elapsed > 0
    /\ workflowRun # <<>> /\ workflowRun[1].status = "completed"

\* C35 as claimed: whenever the dispatch has been issued, every well-formed
\* desired entry was upserted successfully by the setSecrets call before it.
C35_DispatchOnlyAfterAllUpserts ==
    dispatches > 0 => secretsStored = WellFormedAt(opts.secrets)

\* C34 as claimed: no two of the upserts one setSecrets call runs concurrently
\* target the same secret name, and when the call has returned the repository
\* holds, for every entry whose upsert succeeded, the value of that entry,
\* whatever the order in which the requests arrived.
C34_UpsertsNeverCollide ==
    s_pc = "output" =>
        /\ \A e, f \in s_result.sealed : e.at # f.at => e.key # f.key
        /\ \A e \in s_result.sealed :
                e.at \in s_result.stored =>
                    [name |-> e.key, value |-> e.value] \in s_repo

\* C32 as claimed: the extractions of two artifacts with distinct names never
\* write the same file path.
C32_DistinctArtifactsDistinctPaths ==
    \A v, w \in a_written :
        (v.artifact # w.artifact
            /\ a_artifacts[v.artifact].name # a_artifacts[w.artifact].name) =>
            v.path # w.path

\* C33 as claimed: once downloadArtifacts has rejected, no
\* downloadArtifactToPath call is still in progress.
C33_FailureOnlyAfterAllDownloadsSettled ==
    a_settled = "rejected" =>
        \A i \in 1..Len(a_task) : a_task[i] \in {"done", "failed"}

\* C36 as claimed: when the dispatched run reaches a terminal status on the
\* remote before the run-completion timeout elapses, the completion waiter
\* does not fail with the timeout error, also when the run becomes terminal
\* more than WORKFLOW_CREATED_WITHIN_MS after it was created.
C36_TerminalRunIsReturned ==
    (pc = "done" /\ LastStarted = "waitForWorkflowRunCompletion"
        /\ error = TimeoutError("waitForWorkflowRunCompletion")) =>
        ~(runTerminalAt < startTime + opts.workflowRunCompletionTimeoutMs)

\* C40: every runAction invocation eventually settles, resolved or rejected:
\* no waiter polls forever.
C40_RunActionTerminates == <>(pc = "done" /\ outcome \in {"resolved", "rejected"})

\* A waiter polled, slept, polled again and then failed with its timeout
\* error.
C40_Witness ==
    /\ pc = "done" /\ LastStarted \in WaitStages
    /\ sleeps >= 1 /\ probes >= 2
    /\ error = TimeoutError(LastStarted)

====
